---- MODULE Spec2Model ----
(***************************************************************************)
(* Transcript store and search engine of the yt-downloader repository:     *)
(*   transcriptions_dl/models.py        the four tables                    *)
(*   transcriptions_dl/db_utils.py      save_transcript_to_db and helpers  *)
(*   transcriptions_dl/search_utils.py  TranscriptSearchEngine             *)
(*   transcriptions_dl/api.py, views.py the synchronous download handlers  *)
(*   core/downloaders/transcriptions/transcript_processor.py               *)
(*                                      TranscriptProcessor                *)
(*   core/downloaders/transcriptions/metadata_collector.py                 *)
(*                                      MetadataCollector                  *)
(*                                                                         *)
(* Conventions.  A text is a sequence of one-character strings.  A Python  *)
(* value that may be None is a sequence of length 0 (None) or 1 (the       *)
(* value).  A dict is a function from key strings to such optional values; *)
(* the empty dict and None are both the empty function, which Python's     *)
(* truth test does not distinguish either.  Seconds are counted in tenths  *)
(* (30 is 3.0 s); a video's duration is in whole seconds.                  *)
(***************************************************************************)
EXTENDS Integers, Sequences, FiniteSets, TLC

VARIABLES
    db,     \* the committed store: [videos, chapters, segments, assets]
    tx,     \* per worker: the save_transcript_to_db call in progress
    last,   \* the most recently finished save call: its arguments and outcome
    resp    \* the call last answered (a search on the current store, a
            \* download request, or a call of a function of the
            \* processing pipeline), or none

vars == <<db, tx, last, resp>>

None == <<>>
Some(x) == <<x>>
IsNone(o) == Len(o) = 0

-----------------------------------------------------------------------------
(* Python values *)

\* dict.get(k): the value under k, None when the key is absent
D(d, k) == IF k \in DOMAIN d THEN d[k] ELSE None

\* truth tests of optional str, number, bool, dict/list values
TruthyT(o) == Len(o) > 0 /\ Len(o[1]) > 0
TruthyN(o) == Len(o) > 0 /\ o[1] # 0
TruthyB(o) == Len(o) > 0 /\ o[1] = TRUE
TruthyD(o) == Len(o) > 0 /\ (DOMAIN o[1]) # {}
\* the same of a str the model keeps whole (a date, a language code)
TruthyS(o) == Len(o) > 0 /\ o[1] # ""

\* a or b
OrT(a, b) == IF TruthyT(a) THEN a ELSE b
OrN(a, b) == IF TruthyN(a) THEN a ELSE b
OrB(a, b) == IF TruthyB(a) THEN a ELSE b
OrS(a, b) == IF TruthyS(a) THEN a ELSE b

\* str(o or ""): the text of an optional text
TextOf(o) == IF TruthyT(o) THEN o[1] ELSE <<>>

\* a value of any type: a number, a str, None, no value at all (an absent
\* key), or a non-empty list
Num(n) == [kind |-> "num", n |-> n, t |-> <<>>]
Str(t) == [kind |-> "str", n |-> 0, t |-> t]
Null == [kind |-> "null", n |-> 0, t |-> <<>>]
Missing == [kind |-> "missing", n |-> 0, t |-> <<>>]
NonEmptyList == [kind |-> "list", n |-> 0, t |-> <<>>]

\* bool(x)
Truthy(x) ==
    CASE x.kind = "num" -> x.n # 0
      [] x.kind = "str" -> Len(x.t) > 0
      [] x.kind = "list" -> TRUE
      [] OTHER -> FALSE

DigitValue(c) ==
    CASE c = "0" -> 0 [] c = "1" -> 1 [] c = "2" -> 2 [] c = "3" -> 3 [] c = "4" -> 4
      [] c = "5" -> 5 [] c = "6" -> 6 [] c = "7" -> 7 [] c = "8" -> 8 [] c = "9" -> 9
      [] OTHER -> 0 - 1

RECURSIVE DigitsValue(_, _)
DigitsValue(t, acc) ==
    IF Len(t) = 0 THEN acc ELSE DigitsValue(Tail(t), 10 * acc + DigitValue(t[1]))

\* str.isdigit, for the digits 0-9
IsDigits(t) == Len(t) > 0 /\ \A i \in 1..Len(t) : DigitValue(t[i]) >= 0

IsSpace(c) == c = " "

LowerChar(c) ==
    CASE c = "A" -> "a"
      [] c = "B" -> "b"
      [] c = "V" -> "v"
      [] c = "I" -> "i"
      [] c = "L" -> "l"
      [] c = "M" -> "m"
      [] c = "N" -> "n"
      [] OTHER -> c

\* str.lower
Lower(t) == [i \in 1..Len(t) |-> LowerChar(t[i])]

RECURSIVE LStrip(_)
LStrip(t) == IF Len(t) > 0 /\ IsSpace(t[1]) THEN LStrip(Tail(t)) ELSE t

RECURSIVE RStrip(_)
RStrip(t) ==
    IF Len(t) > 0 /\ IsSpace(t[Len(t)]) THEN RStrip(SubSeq(t, 1, Len(t) - 1)) ELSE t

\* str.strip
Strip(t) == LStrip(RStrip(t))

\* str.split(): the maximal runs of non-space characters
RECURSIVE SplitFrom(_, _, _)
SplitFrom(t, i, cur) ==
    IF i > Len(t) THEN (IF Len(cur) > 0 THEN <<cur>> ELSE <<>>)
    ELSE IF IsSpace(t[i])
         THEN (IF Len(cur) > 0 THEN <<cur>> ELSE <<>>) \o SplitFrom(t, i + 1, <<>>)
         ELSE SplitFrom(t, i + 1, Append(cur, t[i]))

Split(t) == SplitFrom(t, 1, <<>>)

\* " ".join(parts)
RECURSIVE Join(_)
Join(parts) ==
    IF Len(parts) = 0 THEN <<>>
    ELSE IF Len(parts) = 1 THEN parts[1]
    ELSE parts[1] \o <<" ">> \o Join(Tail(parts))

\* str.find: the first 0-based position of needle in hay, or -1
FindText(hay, needle) ==
    LET hits == {p \in 0..(Len(hay) - Len(needle)) :
                    SubSeq(hay, p + 1, p + Len(needle)) = needle}
    IN IF hits = {} THEN 0 - 1 ELSE CHOOSE p \in hits : \A q \in hits : p <= q

\* needle in hay
Contains(hay, needle) == FindText(hay, needle) >= 0

\* the SQL icontains lookup
IContains(hay, needle) == Contains(Lower(hay), Lower(needle))

Range(s) == {s[i] : i \in DOMAIN s}

Max2(a, b) == IF a >= b THEN a ELSE b
Min2(a, b) == IF a <= b THEN a ELSE b

SetMax(S) == IF S = {} THEN 0 ELSE CHOOSE m \in S : \A n \in S : n <= m

-----------------------------------------------------------------------------
(* db_utils.py *)

\* hashlib.sha256(data).hexdigest(), taken as collision-free
sha256(data) == <<"sha256">> \o data

\* the digest of the text with every run of whitespace made one space
sha256_collapsed(text) == sha256(Join(Split(text)))

\* sha256_text: the digest of the stripped text
sha256_text(text) == sha256(Strip(text))

\* datetime.date: the proleptic Gregorian calendar
IsLeap(y) == (y % 4 = 0 /\ y % 100 # 0) \/ y % 400 = 0

DaysInMonth(y, m) ==
    CASE m \in {4, 6, 9, 11} -> 30
      [] m = 2 -> (IF IsLeap(y) THEN 29 ELSE 28)
      [] OTHER -> 31

ValidDate(y, m, d) == y >= 1 /\ m \in 1..12 /\ d \in 1..DaysInMonth(y, m)

Date(y, m, d) == [year |-> y, month |-> m, day |-> d]

\* datetime.strptime(text, "%Y%m%d").date() of eight digits: [err, date]
strptime_compact(t) ==
    LET y == DigitsValue(SubSeq(t, 1, 4), 0)
        m == DigitsValue(SubSeq(t, 5, 6), 0)
        d == DigitsValue(SubSeq(t, 7, 8), 0)
    IN IF ValidDate(y, m, d) THEN [err |-> "", date |-> Some(Date(y, m, d))]
       ELSE [err |-> "ValueError", date |-> None]

\* datetime.fromisoformat(text).date() of a text that is not eight digits, for
\* texts without a time part or a week number: YYYY-MM-DD
fromisoformat(t) ==
    LET shaped == /\ Len(t) = 10
                  /\ t[5] = "-" /\ t[8] = "-"
                  /\ IsDigits(SubSeq(t, 1, 4))
                  /\ IsDigits(SubSeq(t, 6, 7))
                  /\ IsDigits(SubSeq(t, 9, 10))
        y == DigitsValue(SubSeq(t, 1, 4), 0)
        m == DigitsValue(SubSeq(t, 6, 7), 0)
        d == DigitsValue(SubSeq(t, 9, 10), 0)
    IN IF shaped /\ ValidDate(y, m, d) THEN [err |-> "", date |-> Some(Date(y, m, d))]
       ELSE [err |-> "ValueError", date |-> None]

SecondsPerDay == 86400
EpochYear == 1970

DaysInYear(y) == IF IsLeap(y) THEN 366 ELSE 365

\* the date n days after the first day of month m of year y
RECURSIVE DateAfter(_, _, _)
DateAfter(y, m, n) ==
    IF m = 1 /\ n >= DaysInYear(y) THEN DateAfter(y + 1, 1, n - DaysInYear(y))
    ELSE IF n >= DaysInMonth(y, m)
    THEN (IF m = 12 THEN DateAfter(y + 1, 1, n - DaysInMonth(y, m))
          ELSE DateAfter(y, m + 1, n - DaysInMonth(y, m)))
    ELSE Date(y, m, n + 1)

\* datetime.fromtimestamp(n).date() of a time at or after the epoch, the local
\* time zone being UTC
fromtimestamp(n) == DateAfter(EpochYear, 1, n \div SecondsPerDay)

\* parse_upload_date: [err, date]; err is the exception that escapes
parse_upload_date(upload_date) ==
    IF ~Truthy(upload_date) THEN [err |-> "", date |-> None]
    ELSE IF upload_date.kind = "str"
    THEN IF Len(upload_date.t) = 8 /\ IsDigits(upload_date.t)
         THEN strptime_compact(upload_date.t)
         ELSE [err |-> "", date |-> fromisoformat(upload_date.t).date]
    ELSE IF upload_date.kind = "num"
    THEN [err |-> "", date |-> Some(fromtimestamp(upload_date.n))]
    ELSE [err |-> "", date |-> None]

\* an optional str as a value
ValueOf(o) == IF Len(o) > 0 THEN Str(o[1]) ELSE Null

\* the rows of one video_id: everything save_transcript_to_db reads or writes
EmptyPart == [videos |-> {}, chapters |-> <<>>, segments |-> <<>>, assets |-> <<>>]

Part(store, pk) ==
    [videos   |-> {v \in store.videos : v.video_id = pk},
     chapters |-> store.chapters[pk],
     segments |-> store.segments[pk],
     assets   |-> store.assets[pk]]

WritePart(store, pk, part) ==
    [videos   |-> {v \in store.videos : v.video_id # pk} \cup part.videos,
     chapters |-> [store.chapters EXCEPT ![pk] = part.chapters],
     segments |-> [store.segments EXCEPT ![pk] = part.segments],
     assets   |-> [store.assets EXCEPT ![pk] = part.assets]]

\* auto_now_add: a time after every processed_at already stored
Now(store) == 1 + SetMax({v.processed_at : v \in store.videos})

\* f"Video {video_id}"
DefaultTitle(video_id) == <<"V", "i", "d", "e", "o", " ", video_id>>

\* the defaults save_video_to_db computes
VideoDefaults(video_id, video_info, structured_data) ==
    LET metadata == structured_data
        m == D(metadata, "metadata")
        i == D(metadata, "info")
        info == IF TruthyD(m) THEN m[1] ELSE IF TruthyD(i) THEN i[1] ELSE video_info
        title == OrT(D(info, "title"),
                     OrT(D(metadata, "title"),
                         OrT(D(video_info, "title"), Some(DefaultTitle(video_id)))))
        duration_s == OrN(D(info, "duration"),
                          OrN(D(info, "duration_s"), D(video_info, "duration")))
        upload == parse_upload_date(ValueOf(OrT(D(info, "upload_date"),
                                                D(video_info, "upload_date"))))
        uploader == OrT(D(info, "uploader"),
                        OrT(D(info, "channel"), D(video_info, "uploader")))
        language_code == OrS(D(info, "language"),
                             OrS(D(info, "language_code"),
                                 D(video_info, "language_code")))
        is_generated == OrB(D(info, "is_generated"), D(video_info, "is_generated"))
        sn == D(metadata, "snippets")
        sg == D(metadata, "segments")
        segs == IF Len(sn) > 0 /\ Len(sn[1]) > 0 THEN sn[1]
                ELSE IF Len(sg) > 0 /\ Len(sg[1]) > 0 THEN sg[1] ELSE <<>>
        all_text == Join([k \in 1..Len(segs) |-> TextOf(D(segs[k], "text"))])
        counted == (DOMAIN structured_data) # {} /\ Len(segs) > 0
    IN [err |-> upload.err,
        row |-> [title           |-> title[1],
                 duration_s      |-> IF TruthyN(duration_s) THEN duration_s ELSE None,
                 upload_date     |-> upload.date,
                 uploader        |-> uploader,
                 language_code   |-> language_code,
                 is_generated    |-> is_generated,
                 metadata        |-> metadata,
                 text_word_count |-> IF counted THEN Some(Len(Split(all_text))) ELSE None,
                 text_char_count |-> IF counted THEN Some(Len(all_text)) ELSE None]]

VideoRow(video_id, user, processed_at, f) ==
    [video_id |-> video_id, user |-> user, processed_at |-> processed_at,
     title |-> f.title, duration_s |-> f.duration_s, upload_date |-> f.upload_date,
     uploader |-> f.uploader, language_code |-> f.language_code,
     is_generated |-> f.is_generated, metadata |-> f.metadata,
     text_word_count |-> f.text_word_count, text_char_count |-> f.text_char_count]

\* the INSERT of Video.objects.update_or_create: video_id is the primary key,
\* so a row of any owner with this video_id makes the insert fail
InsertVideo(part, row) ==
    IF \E v \in part.videos : v.video_id = row.video_id
    THEN [err |-> "IntegrityError", part |-> part]
    ELSE [err |-> "", part |-> [part EXCEPT !.videos = @ \cup {row}]]

\* save_video_to_db: update_or_create looked up by (video_id, user)
save_video_to_db(part, user, video_id, video_info, structured_data, now) ==
    LET d == VideoDefaults(video_id, video_info, structured_data)
        found == {v \in part.videos : v.video_id = video_id /\ v.user = user}
    IN IF d.err # "" THEN [err |-> d.err, part |-> part]
       ELSE IF found # {}
       THEN [err |-> "",
             part |-> [part EXCEPT !.videos =
                          (@ \ found) \cup
                          {VideoRow(video_id, user, v.processed_at, d.row) : v \in found}]]
       ELSE InsertVideo(part, VideoRow(video_id, user, now, d.row))

\* the Chapter rows save_chapters_to_db builds from its argument
ChapterRows(chapters) ==
    [k \in 1..Len(chapters) |->
        LET c == chapters[k]
            start == OrN(D(c, "start"), D(c, "start_time"))
            end == OrN(D(c, "end"), D(c, "end_time"))
        IN [start_time_s |-> IF TruthyN(start) THEN start[1] ELSE 0,
            end_time_s   |-> IF TruthyN(end) THEN end ELSE None,
            text         |-> Strip(TextOf(OrT(D(c, "text"), D(c, "title")))),
            summary      |-> D(c, "summary")]]

\* Chapter.objects.filter(video=video).delete()
DeleteChapters(part) == [part EXCEPT !.chapters = <<>>]

\* save_chapters_to_db with the delete forgotten
AppendChapters(part, chapters) ==
    [part EXCEPT !.chapters = @ \o ChapterRows(chapters)]

\* save_chapters_to_db
save_chapters_to_db(part, chapters) ==
    IF Len(chapters) = 0 THEN part
    ELSE [DeleteChapters(part) EXCEPT !.chapters = @ \o ChapterRows(chapters)]

DefaultDuration == 30
MinDuration == 5

\* a segment given as a plain string rather than a dict
IsStrSegment(s) == "str" \in DOMAIN s

\* the duration of a segment with the end time looked at first
DurationEndFirst(s, start_time) ==
    IF Len(D(s, "end")) > 0 THEN Max2(MinDuration, D(s, "end")[1] - start_time)
    ELSE IF Len(D(s, "duration")) > 0 THEN D(s, "duration")[1]
    ELSE IF Len(D(s, "dur")) > 0 THEN D(s, "dur")[1]
    ELSE DefaultDuration

\* the duration save_segments_to_db stores for one segment
SegmentDuration(s, start_time) ==
    LET given == OrN(D(s, "duration"), D(s, "dur"))
        d0 == IF TruthyN(given) THEN given[1] ELSE 0
        d1 == IF d0 <= 0 /\ TruthyN(D(s, "end"))
              THEN Max2(MinDuration, D(s, "end")[1] - start_time) ELSE d0
    IN IF d1 <= 0 THEN DefaultDuration ELSE d1

SegmentKeys == {"text", "start", "start_time", "duration", "dur", "end"}

\* the text of a segment kept as it came
segment_text_raw(s) == TextOf(D(s, "text"))

\* str(segment.get("text") or "").strip()
segment_text(s) == Strip(TextOf(D(s, "text")))

\* the TranscriptSegment rows save_segments_to_db builds from its argument
RECURSIVE SegmentRows(_, _, _)
SegmentRows(segments, source, is_generated) ==
    IF Len(segments) = 0 THEN <<>>
    ELSE LET s == Head(segments)
             rest == SegmentRows(Tail(segments), source, is_generated)
             text == segment_text(s)
             start == OrN(D(s, "start"), D(s, "start_time"))
             start_time == IF TruthyN(start) THEN start[1] ELSE 0
         IN IF IsStrSegment(s) \/ Len(text) = 0 THEN rest
            ELSE <<[start_time_s |-> start_time,
                    duration_s   |-> SegmentDuration(s, start_time),
                    text         |-> text,
                    is_generated |-> is_generated,
                    source       |-> source,
                    text_hash    |-> sha256_text(text),
                    extra        |-> [k \in (DOMAIN s) \ SegmentKeys |-> s[k]]]>> \o rest

\* TranscriptSegment.objects.filter(video=video).delete()
DeleteSegments(part) == [part EXCEPT !.segments = <<>>]

\* save_segments_to_db with the delete forgotten
AppendSegments(part, segments, source, is_generated) ==
    [part EXCEPT !.segments = @ \o SegmentRows(segments, source, is_generated)]

\* save_segments_to_db
save_segments_to_db(part, segments, source, is_generated) ==
    IF Len(segments) = 0 THEN part
    ELSE [DeleteSegments(part) EXCEPT
             !.segments = @ \o SegmentRows(segments, source, is_generated)]

AssetRow(kind, content_text, content_json) ==
    [kind |-> kind, content_text |-> content_text, content_json |-> content_json]

\* the INSERT of RawAsset.objects.update_or_create
CreateAsset(assets, row) == Append(assets, row)

AssetOf(kind, field, value) ==
    IF field = "content_text" THEN AssetRow(kind, value, None)
    ELSE AssetRow(kind, None, value)

\* RawAsset.objects.create in place of update_or_create
InsertAsset(assets, kind, field, value) == CreateAsset(assets, AssetOf(kind, field, value))

\* RawAsset.objects.update_or_create(video=video, kind=kind, defaults=...):
\* a row of this kind has the defaults written over it, else one is inserted
UpsertAsset(assets, kind, field, value) ==
    IF \E k \in 1..Len(assets) : assets[k].kind = kind
    THEN [k \in 1..Len(assets) |->
             IF assets[k].kind = kind THEN [assets[k] EXCEPT ![field] = value]
             ELSE assets[k]]
    ELSE CreateAsset(assets, AssetOf(kind, field, value))

\* save_raw_assets_to_db
save_raw_assets_to_db(part, clean_text, timestamped_text, structured_json) ==
    LET a1 == IF TruthyT(clean_text)
              THEN UpsertAsset(part.assets, "clean_text", "content_text", clean_text)
              ELSE part.assets
        a2 == IF TruthyT(timestamped_text)
              THEN UpsertAsset(a1, "timestamped", "content_text", timestamped_text)
              ELSE a1
        a3 == IF (DOMAIN structured_json) # {}
              THEN UpsertAsset(a2, "structured_json", "content_json", Some(structured_json))
              ELSE a2
    IN [part EXCEPT !.assets = a3]

\* the statements of save_transcript_to_db, in order
Steps == <<"video", "chapters", "segments", "assets">>

\* One statement of save_transcript_to_db on the rows of its video: [err, part].
\* fault names the statement at which the database raises: the video upsert,
\* the bulk_create of chapters or of segments (after its delete), or the
\* timestamped upsert (after the clean_text one).
RunStep(step, part, a, fault, now) ==
    CASE step = "video" ->
           IF fault = "video" THEN [err |-> "DatabaseError", part |-> part]
           ELSE save_video_to_db(part, a.user, a.video_id, a.video_info,
                                 a.structured_data, now)
      [] step = "chapters" ->
           IF Len(a.chapters) = 0 THEN [err |-> "", part |-> part]
           ELSE IF fault = "chapters"
           THEN [err |-> "DatabaseError", part |-> DeleteChapters(part)]
           ELSE [err |-> "", part |-> save_chapters_to_db(part, a.chapters)]
      [] step = "segments" ->
           IF Len(a.segments) = 0 THEN [err |-> "", part |-> part]
           ELSE IF fault = "segments"
           THEN [err |-> "DatabaseError", part |-> DeleteSegments(part)]
           ELSE [err |-> "",
                 part |-> save_segments_to_db(part, a.segments, a.source, a.is_generated)]
      [] OTHER ->
           IF fault = "assets" /\ TruthyT(a.timestamped_text)
           THEN [err |-> "DatabaseError",
                 part |-> save_raw_assets_to_db(part, a.clean_text, None, <<>>)]
           ELSE [err |-> "",
                 part |-> save_raw_assets_to_db(part, a.clean_text, a.timestamped_text,
                                                a.structured_data)]

\* the statements from the k-th on, stopping at the first that raises
RECURSIVE RunFrom(_, _, _, _, _)
RunFrom(k, part, a, fault, now) ==
    IF k > Len(Steps) THEN [err |-> "", at |-> "", part |-> part]
    ELSE LET r == RunStep(Steps[k], part, a, fault, now)
         IN IF r.err # "" THEN [err |-> r.err, at |-> Steps[k], part |-> r.part]
            ELSE RunFrom(k + 1, r.part, a, fault, now)

\* transaction.atomic without a transaction: every statement's write stays
Autocommit(before, work, err) == work

\* @transaction.atomic: the writes are committed when the function returns and
\* undone when an exception leaves it
transaction_atomic(before, work, err) == IF err # "" THEN before ELSE work

\* save_transcript_to_db run alone: [err, at, store]
save_transcript_to_db(store, a, fault, now) ==
    LET r == RunFrom(1, Part(store, a.video_id), a, fault, now)
    IN [err |-> r.err, at |-> r.at,
        store |-> transaction_atomic(store, WritePart(store, a.video_id, r.part), r.err)]

-----------------------------------------------------------------------------
(* The calls the model makes *)

Users == {"u1", "u2"}
VideoIds == {"v1", "v2"}
Workers == {"w1", "w2"}
Faults == {"none", "video", "chapters", "segments", "assets"}

InfoA ==
    [title |-> Some(<<"A", "b">>), duration |-> Some(5), uploader |-> Some(<<"b">>),
     upload_date |-> Some(<<"2", "0", "2", "5", "0", "1", "3", "0">>), language_code |-> Some("en"),
     is_generated |-> Some(TRUE)]

InfoB == [title |-> Some(<<"b", " ", "a">>), upload_date |-> Some(<<"2", "0", "2", "5", "-", "0", "1", "-", "3", "0">>)]

InfoBadDate == [title |-> Some(<<"a">>), upload_date |-> Some(<<"2", "0", "2", "5", "1", "3", "4", "0">>)]

StructA ==
    [metadata |-> Some([title |-> Some(<<"a", "b">>), duration_s |-> Some(5),
                        channel |-> Some(<<"A">>), language |-> Some("en")]),
     snippets |-> Some(<<[text |-> Some(<<"a", " ", "b">>), start |-> Some(0)],
                         [text |-> Some(<<"b">>), start |-> Some(50)]>>)]

SegmentsA ==
    <<[text |-> Some(<<" ", "a", " ", "b">>), start |-> Some(0), duration |-> Some(20)],
      [text |-> Some(<<" ">>), start |-> Some(20)],
      [str |-> Some(<<"b">>)],
      [text |-> Some(<<"b">>), start_time |-> Some(50), end |-> Some(52),
       speaker |-> Some(<<"a">>)]>>

SegmentsB == <<[text |-> Some(<<"B", "a", "b">>), start |-> Some(10)]>>

ChaptersA ==
    <<[start |-> Some(0), end |-> Some(50), text |-> Some(<<"a", "b", " ">>),
       summary |-> Some(<<"a">>)],
      [start_time |-> Some(50), title |-> Some(<<"b">>)]>>

ChaptersB == <<[start |-> Some(0), text |-> Some(<<"B">>)]>>

Payload(info, structured, segments, chapters, clean, timestamped, generated) ==
    [video_info |-> info, structured_data |-> structured, segments |-> segments,
     chapters |-> chapters, clean_text |-> clean, timestamped_text |-> timestamped,
     source |-> "youtube", is_generated |-> generated]

PayloadA ==
    Payload(InfoA, StructA, SegmentsA, ChaptersA, Some(<<"x", "A", "b">>),
            Some(<<"0", " ", "a", "b">>), Some(TRUE))

PayloadB ==
    Payload(InfoB, <<>>, SegmentsB, ChaptersB, Some(<<"b", "a">>), None, None)

\* a transcript with no segments and no chapters: only the clean text
PayloadText == Payload(InfoB, <<>>, <<>>, <<>>, Some(<<"a", "b", "a">>), None, None)

\* nothing but the video id
PayloadEmpty == Payload(<<>>, <<>>, <<>>, <<>>, None, None, None)

\* segments whose texts differ in whitespace only: at the ends, and inside
SegmentsSpaced ==
    <<[text |-> Some(<<" ", "a", " ", "b">>), start |-> Some(0)],
      [text |-> Some(<<"a", " ", "b", " ">>), start |-> Some(10)],
      [text |-> Some(<<"a", " ", " ", "b">>), start |-> Some(20)]>>

PayloadSpaced == Payload(InfoB, <<>>, SegmentsSpaced, <<>>, None, None, None)

PayloadBadDate ==
    Payload(InfoBadDate, <<>>, SegmentsB, ChaptersB, Some(<<"b">>), None, None)

Payloads == {PayloadA, PayloadB, PayloadEmpty, PayloadBadDate}

\* the arguments of one save_transcript_to_db call
Args(user, video_id, p) ==
    [user |-> user, video_id |-> video_id, video_info |-> p.video_info,
     structured_data |-> p.structured_data, segments |-> p.segments,
     chapters |-> p.chapters, clean_text |-> p.clean_text,
     timestamped_text |-> p.timestamped_text, source |-> p.source,
     is_generated |-> p.is_generated]

\* the calls, each with the statement at which the database fails it (or
\* none): every payload for both users on one video, two calls on another
Calls ==
    {<<Args(u, "v1", p), "none">> : u \in Users, p \in Payloads}
    \cup {<<Args("u1", "v1", PayloadA), f>> : f \in Faults}
    \cup {<<Args("u2", "v2", PayloadB), "none">>, <<Args("u1", "v2", PayloadEmpty), "none">>,
          <<Args("u2", "v2", PayloadSpaced), "none">>}

\* the calls made concurrently, all for one video
ConcurrentCalls ==
    {<<Args(u, "v1", p), "none">> : u \in Users, p \in {PayloadA, PayloadB, PayloadEmpty}}
    \cup {<<Args("u1", "v1", PayloadA), "segments">>}

-----------------------------------------------------------------------------
(* State *)

EmptyStore ==
    [videos   |-> {},
     chapters |-> [v \in VideoIds |-> <<>>],
     segments |-> [v \in VideoIds |-> <<>>],
     assets   |-> [v \in VideoIds |-> <<>>]]

Idle == [pc |-> "idle"]

NoCall == [tick |-> 0, outcome |-> "none"]

NoResponse == [op |-> "none"]

Init ==
    /\ db = EmptyStore
    /\ tx = [w \in Workers |-> Idle]
    /\ last = NoCall
    /\ resp = NoResponse

\* The record of a finished call: its arguments and injected fault, the time
\* it read, how it ended (err, and at which statement), whether the call
\* finished just before it was a committed call with the same arguments, and
\* whether another call for the same (user, video_id) was in progress when it
\* finished.  tick flips at every finished call.
Finished(err, at, a, fault, now, overlapped) ==
    [tick |-> 1 - last.tick,
     outcome |-> IF err = "" THEN "ok" ELSE "error",
     err |-> err, at |-> at, args |-> a, fault |-> fault, now |-> now,
     repeat |-> (last.outcome = "ok" /\ last.args = a),
     overlapped |-> overlapped]

\* save_transcript_to_db, run from call to return with no other call in between
Save(a, fault) ==
    LET r == save_transcript_to_db(db, a, fault, Now(db))
    IN /\ \A w \in Workers : tx[w].pc = "idle"
       /\ db' = r.store
       /\ last' = Finished(r.err, r.at, a, fault, Now(db), FALSE)
       /\ resp' = NoResponse
       /\ UNCHANGED tx

NextSeq == \E c \in Calls : Save(c[1], c[2])

SpecSeq == Init /\ [][NextSeq]_vars

-----------------------------------------------------------------------------
(* api.py, views.py: the synchronous transcript download *)

\* the URL of a video on YouTube
WatchUrl(video_id) == <<"y", "t", "/", video_id>>

\* YouTubeURLSanitizer.is_youtube_url: a video id can be extracted from the URL
is_youtube_url(url) == \E v \in VideoIds : url = WatchUrl(v)

VideoOf(url) == CHOOSE v \in VideoIds : url = WatchUrl(v)

\* what the handler meets before the save: a call that raises, a download
\* that returns (False, {}), or one that returns (True, transcript_data)
Raised == [kind |-> "raises", data |-> PayloadEmpty]
NotDownloaded == [kind |-> "failed", data |-> PayloadEmpty]
Downloaded(p) == [kind |-> "ok", data |-> p]

\* what surrounds one request: the outcome of the download, the statement at
\* which the database fails the save (or none), whether get_video_info and
\* _find_transcript_files find the clean transcript file
Surroundings ==
    {[download |-> d, fault |-> "none", clean_file |-> FALSE] :
        d \in {Raised, NotDownloaded, Downloaded(PayloadBadDate)}}
    \cup {[download |-> Downloaded(PayloadB), fault |-> f, clean_file |-> c] :
             f \in {"none", "segments"}, c \in BOOLEAN}

\* a blank URL, one that is not of YouTube, and that of a video
Urls == {<<" ">>, <<"x">>, WatchUrl("v1")}

\* the requests, all of one user
ApiRequests ==
    {[user |-> "u1", url |-> url, download_to_remote |-> r, formats |-> {}] :
        url \in Urls, r \in BOOLEAN}

FormRequests ==
    {[user |-> "u1", url |-> url, download_to_remote |-> FALSE, formats |-> f] :
        url \in Urls, f \in {{}, {"clean"}}}

\* download_transcript_files: no transcript comes from a URL that names no
\* video
download_transcript_files(url, env) ==
    IF env.download.kind = "ok" /\ ~is_youtube_url(url) THEN NotDownloaded
    ELSE env.download

\* a save that was not made
NoSave == [err |-> "", at |-> "", store |-> EmptyStore]

\* the answer to a request that ended before the save was reached
Refused(kind, status) ==
    [kind |-> kind, status |-> status, success |-> FALSE, saved |-> FALSE,
     args |-> Args("u1", "v1", PayloadEmpty), fault |-> "none", save |-> NoSave]

\* the answer to a request that called save_transcript_to_db with arguments a:
\* save is what the call did, and the answer is the same whatever that was
AfterSave(kind, status, a, fault, save) ==
    [kind |-> kind, status |-> status, success |-> TRUE, saved |-> TRUE,
     args |-> a, fault |-> fault, save |-> save]

\* the arguments both handlers give save_transcript_to_db
SaveArgs(user, url, data) == Args(user, VideoOf(url), data)

\* download_transcript_api
download_transcript_api(store, request, env, now) ==
    LET url == Strip(request.url)
        a == SaveArgs(request.user, url, env.download.data)
    IN IF Len(url) = 0 THEN Refused("json", 400)
       ELSE IF ~is_youtube_url(url) THEN Refused("json", 400)
       ELSE IF download_transcript_files(url, env).kind = "raises" THEN Refused("json", 400)
       ELSE IF download_transcript_files(url, env).kind = "failed" THEN Refused("json", 400)
       ELSE AfterSave(IF request.download_to_remote /\ env.clean_file THEN "file" ELSE "json",
                      200, a, env.fault, save_transcript_to_db(store, a, env.fault, now))

\* download_form, for a POST
download_form(store, request, env, now) ==
    LET url == Strip(request.url)
        a == SaveArgs(request.user, url, env.download.data)
    IN IF Len(url) = 0 THEN Refused("bad_request", 400)
       ELSE IF request.formats = {} THEN Refused("redirect_error", 302)
       ELSE IF download_transcript_files(url, env).kind = "raises"
            THEN Refused("bad_request", 400)
       ELSE IF download_transcript_files(url, env).kind = "failed"
            THEN Refused("bad_request", 400)
       ELSE AfterSave("redirect_success", 302, a, env.fault,
                      save_transcript_to_db(store, a, env.fault, now))

\* the answer kept with its request
Answer(op, request, out) ==
    [op |-> op, req |-> request, kind |-> out.kind, status |-> out.status,
     success |-> out.success, saved |-> out.saved, err |-> out.save.err,
     args |-> out.args]

\* the record of the save a request made, if it made one
SaveRecord(out, now) ==
    IF out.saved
    THEN Finished(out.save.err, out.save.at, out.args, out.fault, now, FALSE)
    ELSE last

DownloadTranscriptApi ==
    \E request \in ApiRequests, env \in Surroundings :
        \E out \in {download_transcript_api(db, request, env, Now(db))} :
            /\ \A w \in Workers : tx[w].pc = "idle"
            /\ db' = IF out.saved THEN out.save.store ELSE db
            /\ last' = SaveRecord(out, Now(db))
            /\ resp' = Answer("download_transcript_api", request, out)
            /\ UNCHANGED tx

DownloadForm ==
    \E request \in FormRequests, env \in Surroundings :
        \E out \in {download_form(db, request, env, Now(db))} :
            /\ \A w \in Workers : tx[w].pc = "idle"
            /\ db' = IF out.saved THEN out.save.store ELSE db
            /\ last' = SaveRecord(out, Now(db))
            /\ resp' = Answer("download_form", request, out)
            /\ UNCHANGED tx

\* the tuple (success, data) download_transcript_files returns
ReturnedTuple(d) == <<d.kind = "ok", d.data>>

\* the truth value of a tuple: it is not empty
TruthyTuple(t) == Len(t) > 0

\* the background tasks: each URL for a user that is there and one that is not
TaskRequests == {[url |-> url, user_exists |-> e] : url \in Urls, e \in BOOLEAN}

\* process_transcript_download: the branch the task ends on
process_transcript_download(request, env) ==
    LET d == download_transcript_files(request.url, env)
        success == ReturnedTuple(d)
    IN IF ~request.user_exists THEN "user_not_found"
       ELSE IF d.kind = "raises" THEN "error"
       ELSE IF TruthyTuple(success) THEN "success"
       ELSE "failure"

ProcessTranscriptDownload ==
    \E request \in TaskRequests, env \in Surroundings :
        /\ \A w \in Workers : tx[w].pc = "idle"
        /\ resp' = [op |-> "process_transcript_download", req |-> request,
                    download |-> download_transcript_files(request.url, env).kind,
                    path |-> process_transcript_download(request, env)]
        /\ UNCHANGED <<db, tx, last>>

NextDownload ==
    \/ DownloadTranscriptApi
    \/ DownloadForm
    \/ ProcessTranscriptDownload

SpecDownload == Init /\ [][NextDownload]_vars

-----------------------------------------------------------------------------
(* Concurrent calls: one statement at a time *)

\* a worker is past its video upsert and has not returned: it holds the row
\* lock that update_or_create's SELECT ... FOR UPDATE took (or, for a new row,
\* the uncommitted primary-key entry a second INSERT has to wait for)
Holds(w, pk) == tx[w].pc \notin {"idle", "video"} /\ tx[w].args.video_id = pk

\* no row lock at all: a plain get() followed by save()
Unlocked(w, pk) == TRUE

\* Video.objects.update_or_create can proceed: no other transaction holds the row
LockFree(w, pk) == \A o \in Workers \ {w} : ~Holds(o, pk)

Overlaps(w) ==
    \E o \in Workers \ {w} :
        /\ tx[o].pc # "idle"
        /\ tx[o].args.user = tx[w].args.user
        /\ tx[o].args.video_id = tx[w].args.video_id

NextPc(step) ==
    CASE step = "video" -> "chapters"
      [] step = "chapters" -> "segments"
      [] step = "segments" -> "assets"
      [] OTHER -> "return"

\* a worker enters save_transcript_to_db
Call(w, a, fault) ==
    /\ tx[w].pc = "idle"
    /\ tx' = [tx EXCEPT ![w] = [pc |-> "video", args |-> a, fault |-> fault,
                                now |-> 0, part |-> EmptyPart]]
    /\ UNCHANGED <<db, last, resp>>

\* The worker runs its next statement on the rows its transaction sees: the
\* committed rows of its video, read when the upsert gets the row, and its own
\* writes since.  A statement that raises ends the call: the exception leaves
\* the function through @transaction.atomic.
Statement(w, step) ==
    LET t == tx[w]
        pk == t.args.video_id
        now == IF step = "video" THEN Now(db) ELSE t.now
        part == IF step = "video" THEN Part(db, pk) ELSE t.part
        r == RunStep(step, part, t.args, t.fault, now)
    IN /\ t.pc = step
       /\ step = "video" => LockFree(w, pk)
       /\ IF r.err = ""
          THEN /\ tx' = [tx EXCEPT ![w] = [t EXCEPT !.pc = NextPc(step), !.now = now,
                                                    !.part = r.part]]
               /\ UNCHANGED <<db, last, resp>>
          ELSE /\ db' = transaction_atomic(db, WritePart(db, pk, r.part), r.err)
               /\ tx' = [tx EXCEPT ![w] = Idle]
               /\ last' = Finished(r.err, step, t.args, t.fault, now, Overlaps(w))
               /\ resp' = NoResponse

UpsertVideo(w) == Statement(w, "video")
ReplaceChapters(w) == Statement(w, "chapters")
ReplaceSegments(w) == Statement(w, "segments")
UpsertRawAssets(w) == Statement(w, "assets")

\* the function returns and @transaction.atomic commits
Return(w) ==
    LET t == tx[w]
    IN /\ t.pc = "return"
       /\ db' = transaction_atomic(db, WritePart(db, t.args.video_id, t.part), "")
       /\ tx' = [tx EXCEPT ![w] = Idle]
       /\ last' = Finished("", "", t.args, t.fault, t.now, Overlaps(w))
       /\ resp' = NoResponse

Next ==
    \E w \in Workers :
        \/ \E c \in ConcurrentCalls : Call(w, c[1], c[2])
        \/ UpsertVideo(w)
        \/ ReplaceChapters(w)
        \/ ReplaceSegments(w)
        \/ UpsertRawAssets(w)
        \/ Return(w)

Spec == Init /\ [][Next]_vars

-----------------------------------------------------------------------------
(* Properties of the store *)

\* the step finishes a save_transcript_to_db call, which last' then describes
CallFinishes == last'.tick # last.tick

AssetKinds == {"clean_text", "timestamped", "structured_json"}

AssetsOfKind(store, pk, kind) ==
    {k \in 1..Len(store.assets[pk]) : store.assets[pk][k].kind = kind}

\* C1: a save_transcript_to_db call that fails at any of its statements leaves
\* the committed store exactly as it was before the call.
C1_AllOrNothing ==
    [][(CallFinishes /\ last'.outcome = "error") => db' = db]_vars

\* C1 happens: a call failed at its last statement, after it had inserted its
\* video and replaced chapters and segments, and the store holds none of it.
C1_Witness ==
    /\ last.outcome = "error"
    /\ last.at = "assets"
    /\ Len(last.args.chapters) > 0
    /\ Len(last.args.segments) > 0
    /\ db = EmptyStore

\* C2: a committed call that repeats the committed call just before it, with
\* identical arguments, changes nothing: still one Video row for its (user,
\* video_id), the same chapters, segments and raw assets, the same word count.
C2_Idempotent ==
    [][(CallFinishes /\ last'.outcome = "ok" /\ last'.repeat) =>
            /\ db' = db
            /\ Cardinality({v \in db'.videos : /\ v.video_id = last'.args.video_id
                                               /\ v.user = last'.args.user}) = 1]_vars

\* C2 happens: a call with chapters, segments and assets was committed twice in a row.
C2_Witness ==
    /\ last.outcome = "ok"
    /\ last.repeat
    /\ Len(last.args.chapters) > 0
    /\ Len(last.args.segments) > 0
    /\ TruthyT(last.args.clean_text)

\* C3 as stated: after every committed call the video's chapters are exactly
\* those built from the chapters argument and its segments exactly those built
\* from the segments argument, whether or not the argument is empty.
C3_AlwaysReplaced ==
    last.outcome = "ok" =>
        /\ db.chapters[last.args.video_id] = ChapterRows(last.args.chapters)
        /\ db.segments[last.args.video_id] =
               SegmentRows(last.args.segments, last.args.source, last.args.is_generated)

\* C3 amended: a committed call with a non-empty chapters argument leaves
\* exactly the chapters built from it, and one with a non-empty segments
\* argument exactly the segments built from it; an empty argument leaves the
\* video's stored chapters (segments) as they were.
C3_ReplacedWhenGiven ==
    [][(CallFinishes /\ last'.outcome = "ok") =>
          LET a == last'.args
              pk == a.video_id
          IN /\ db'.chapters[pk] =
                    IF Len(a.chapters) > 0 THEN ChapterRows(a.chapters)
                    ELSE db.chapters[pk]
             /\ db'.segments[pk] =
                    IF Len(a.segments) > 0
                    THEN SegmentRows(a.segments, a.source, a.is_generated)
                    ELSE db.segments[pk]]_vars

\* C3 happens: a call replaced the chapters and segments an earlier call (the
\* one that stored the timestamped asset) had written for the video.
C3_Witness ==
    /\ last.outcome = "ok"
    /\ last.args.chapters = ChaptersB
    /\ db.chapters[last.args.video_id] = ChapterRows(ChaptersB)
    /\ db.segments[last.args.video_id] = SegmentRows(SegmentsB, "youtube", None)
    /\ AssetsOfKind(db, last.args.video_id, "timestamped") # {}

\* C4: calls serialize.  Whatever was interleaved with it, a call takes effect
\* at the moment it finishes, as the whole call run alone on the store
\* committed at that moment: the committed history is a serial one.
C4_Serialized ==
    [][CallFinishes =>
          db' = save_transcript_to_db(db, last'.args, last'.fault, last'.now).store]_vars

\* C4 happens: a call was committed while another call for the same (user,
\* video_id) was in progress.
C4_Witness == last.outcome = "ok" /\ last.overlapped /\ Len(last.args.chapters) > 0

\* C5 as stated: a save by one owner for a video_id another owner has stored
\* succeeds (no database fault, no bad input), and the store holds a Video for
\* each of the two owners.
C5_KeyedPerOwner ==
    (/\ last.outcome # "none"
     /\ last.err \notin {"DatabaseError", "ValueError"}
     /\ \E v \in db.videos : v.video_id = last.args.video_id /\ v.user # last.args.user)
    => (/\ last.outcome = "ok"
        /\ \E v \in db.videos : v.video_id = last.args.video_id /\ v.user = last.args.user)

\* C6: there is at most one RawAsset per (video, kind), and after a committed
\* call the asset of each kind the call supplied holds the call's content.
C6_OneAssetPerKind ==
    /\ \A pk \in VideoIds, kind \in AssetKinds : Cardinality(AssetsOfKind(db, pk, kind)) <= 1
    /\ last.outcome = "ok" =>
          LET a == last.args
              rows == db.assets[a.video_id]
          IN /\ TruthyT(a.clean_text) =>
                    \E k \in AssetsOfKind(db, a.video_id, "clean_text") :
                        rows[k].content_text = a.clean_text
             /\ TruthyT(a.timestamped_text) =>
                    \E k \in AssetsOfKind(db, a.video_id, "timestamped") :
                        rows[k].content_text = a.timestamped_text
             /\ (DOMAIN a.structured_data) # {} =>
                    \E k \in AssetsOfKind(db, a.video_id, "structured_json") :
                        rows[k].content_json = Some(a.structured_data)

\* C6 happens: a call wrote its clean text over the clean_text asset an earlier
\* call (the one that stored the timestamped asset) had created.
C6_Witness ==
    /\ last.outcome = "ok"
    /\ last.args.clean_text = PayloadB.clean_text
    /\ AssetsOfKind(db, last.args.video_id, "timestamped") # {}
    /\ AssetsOfKind(db, last.args.video_id, "clean_text") # {}

-----------------------------------------------------------------------------
(* search_utils.py *)

\* Permutations of a finite set, as sequences
Perms(S) ==
    {p \in [1..Cardinality(S) -> S] : \A i, j \in 1..Cardinality(S) : p[i] = p[j] => i = j}

\* ORDER BY: the orders of the rows of S the database may return them in, where
\* <<a, b>> \in before says the sort key puts a strictly before b.  Rows with
\* equal keys come in any order, and the order may differ from one query to
\* the next.
Orderings(S, before) ==
    {p \in Perms(S) : \A i, j \in 1..Cardinality(S) : i < j => <<p[j], p[i]>> \notin before}

\* code point order of the characters the model uses
CharRank(c) ==
    CASE c = " " -> 0 [] c = "0" -> 1 [] c = "A" -> 2 [] c = "B" -> 3 [] c = "V" -> 4
      [] c = "a" -> 5 [] c = "b" -> 6 [] c = "d" -> 7 [] c = "e" -> 8 [] c = "i" -> 9
      [] c = "o" -> 10 [] c = "x" -> 11 [] OTHER -> 12

\* s sorts strictly before t
RECURSIVE TextLess(_, _)
TextLess(s, t) ==
    IF Len(t) = 0 THEN FALSE
    ELSE IF Len(s) = 0 THEN TRUE
    ELSE IF CharRank(s[1]) # CharRank(t[1]) THEN CharRank(s[1]) < CharRank(t[1])
    ELSE TextLess(Tail(s), Tail(t))

\* Video.objects.all(): the engine of no user sees every video
AllVideos(store, user) == store.videos

\* TranscriptSearchEngine.__init__: base_queryset
base_queryset(store, user) ==
    IF Len(user) > 0 THEN {v \in store.videos : v.user = user[1]} ELSE store.videos

\* _apply_video_filters
apply_video_filters(queryset, filters) ==
    {v \in queryset :
        /\ "title" \in DOMAIN filters => IContains(v.title, filters.title)
        /\ "uploader" \in DOMAIN filters =>
               Len(v.uploader) > 0 /\ IContains(v.uploader[1], filters.uploader)
        /\ "date_from" \in DOMAIN filters => v.processed_at >= filters.date_from
        /\ "date_to" \in DOMAIN filters => v.processed_at <= filters.date_to
        /\ "duration_min" \in DOMAIN filters =>
               Len(v.duration_s) > 0 /\ v.duration_s[1] >= filters.duration_min
        /\ "duration_max" \in DOMAIN filters =>
               Len(v.duration_s) > 0 /\ v.duration_s[1] <= filters.duration_max}

\* search_transcripts: the video-level filters
FilteredVideos(store, user, q) ==
    LET v0 == base_queryset(store, user)
        v1 == IF (DOMAIN q.video_filters) # {} THEN apply_video_filters(v0, q.video_filters)
              ELSE v0
        v2 == IF TruthyS(q.language) THEN {v \in v1 : v.language_code = q.language} ELSE v1
    IN IF Len(q.is_generated) > 0 THEN {v \in v2 : v.is_generated = q.is_generated} ELSE v2

\* _apply_sorting: the sort key as a strict order (NULL durations first when
\* descending, as PostgreSQL puts them)
SortsBefore(sort_by, query, a, b) ==
    IF sort_by = "duration"
    THEN IF Len(a.duration_s) = 0 THEN Len(b.duration_s) > 0
         ELSE Len(b.duration_s) > 0 /\ a.duration_s[1] > b.duration_s[1]
    ELSE IF sort_by = "title" THEN TextLess(a.title, b.title)
    ELSE a.processed_at > b.processed_at

\* Paginator.num_pages
num_pages(count, per_page) == (Max2(1, count) + per_page - 1) \div per_page

\* Paginator.get_page: the number of the page served
page_number(page, pages) == IF page < 1 \/ page > pages THEN pages ELSE page

\* Paginator.page(number).object_list
PageItems(ordered, number, per_page) ==
    SubSeq(ordered, (number - 1) * per_page + 1, Min2(number * per_page, Len(ordered)))

\* _serialize_video
serialize_video(store, v) ==
    [video_id |-> v.video_id, title |-> v.title, duration_s |-> v.duration_s,
     upload_date |-> v.upload_date, uploader |-> v.uploader,
     language_code |-> v.language_code, is_generated |-> v.is_generated,
     processed_at |-> v.processed_at, text_word_count |-> v.text_word_count,
     text_char_count |-> v.text_char_count,
     chapters_count |-> Len(store.chapters[v.video_id]),
     segments_count |-> Len(store.segments[v.video_id])]

\* one entry of _serialize_segments; id is the row's position among the video's segments
serialize_segment(row, k) ==
    [id |-> k, start_time_s |-> row.start_time_s, duration_s |-> row.duration_s,
     text |-> row.text, is_generated |-> row.is_generated, source |-> row.source]

\* _full_text_search: every word of the query is a word of the text (the
\* 'english' configuration's stemming and stop words are left out)
FullTextMatch(text, query) ==
    LET words == Split(Lower(query))
    IN Len(words) > 0 /\ Range(words) \subseteq Range(Split(Lower(text)))

\* the query applied to one segment text, per search_type
TextMatches(search_type, text, query) ==
    CASE search_type = "full_text" -> FullTextMatch(text, query)
      [] search_type = "exact" -> IContains(text, query)
      [] search_type = "fuzzy" -> IContains(text, query)
      [] OTHER -> TRUE

\* segments_qs.filter(video=video): positions of the video's segments that are
\* in the time range and match the query
MatchingSegments(store, pk, q) ==
    {k \in 1..Len(store.segments[pk]) :
        LET row == store.segments[pk][k]
        IN /\ Len(q.time_range) > 0 =>
                  /\ row.start_time_s >= q.time_range[1][1]
                  /\ row.start_time_s <= q.time_range[1][2]
           /\ TextMatches(q.search_type, row.text, q.query)}

\* .order_by('start_time_s') of a set of positions of one video's segments
RECURSIVE ByStart(_, _)
ByStart(rows, ks) ==
    IF ks = {} THEN <<>>
    ELSE LET k == CHOOSE x \in ks : \A y \in ks :
                      \/ rows[x].start_time_s < rows[y].start_time_s
                      \/ rows[x].start_time_s = rows[y].start_time_s /\ x <= y
         IN <<k>> \o ByStart(rows, ks \ {k})

\* _search_in_raw_assets looking at the timestamped assets only
search_in_timestamped(store, videos_qs, query) ==
    {v \in videos_qs :
        \E k \in 1..Len(store.assets[v.video_id]) :
            LET asset == store.assets[v.video_id][k]
            IN /\ asset.kind = "timestamped"
               /\ Len(asset.content_text) > 0
               /\ IContains(asset.content_text[1], query)}

\* _search_in_raw_assets
search_in_raw_assets(store, videos_qs, query) ==
    {v \in videos_qs :
        \E k \in 1..Len(store.assets[v.video_id]) :
            LET asset == store.assets[v.video_id][k]
            IN /\ asset.kind \in {"clean_text", "timestamped"}
               /\ Len(asset.content_text) > 0
               /\ IContains(asset.content_text[1], query)}

\* the characters of context kept on each side of the match
MockContext == 100

\* the duration of a mock segment, in tenths of a second
MockDuration == 30

\* max(0, start_pos - 100), 0-based
context_start(start_pos) == Max2(0, start_pos - MockContext)

\* the end of the context with the length of the query forgotten
context_end_short(content, start_pos, query) ==
    Min2(Len(content), start_pos + MockContext)

\* min(len(content), start_pos + len(query) + 100), 0-based and exclusive
context_end(content, start_pos, query) ==
    Min2(Len(content), start_pos + Len(query) + MockContext)

\* _create_mock_segments_from_raw_assets
create_mock_segments(store, v, query) ==
    LET assets == store.assets[v.video_id]
        clean == {k \in 1..Len(assets) : assets[k].kind = "clean_text"}
        content == assets[CHOOSE k \in clean : \A j \in clean : k <= j].content_text
        start_pos == FindText(Lower(content[1]), Lower(query))
    IN IF clean = {} \/ ~TruthyT(content) THEN <<>>
       ELSE IF start_pos < 0 THEN <<>>
       ELSE <<[id |-> 0, start_time_s |-> 0, duration_s |-> MockDuration,
               text |-> SubSeq(content[1], context_start(start_pos) + 1,
                               context_end(content[1], start_pos, query)),
               is_generated |-> v.is_generated, source |-> "raw_asset"]>>

\* _calculate_relevance_score, in tenths
calculate_relevance_score(v, query) ==
    IF Len(query) = 0 THEN 0
    ELSE IF Contains(Lower(v.title), Lower(query)) THEN 10 ELSE 5

\* the envelope both paths of search_transcripts return
Envelope(results, count, q, query, search_type, filters_applied) ==
    LET pages == num_pages(count, q.page_size)
        number == page_number(q.page, pages)
    IN [results |-> results, total_count |-> count,
        page |-> q.page, page_size |-> q.page_size, total_pages |-> pages,
        has_next |-> number < pages, has_previous |-> number > 1,
        query |-> query, search_type |-> search_type, filters_applied |-> filters_applied]

\* the rows of an ordered queryset that land on the page served
ServedPage(ordered, q) ==
    PageItems(ordered, page_number(q.page, num_pages(Len(ordered), q.page_size)), q.page_size)

\* _get_video_results that reports no segment counts
video_results_uncounted(store, ordered, q) ==
    LET items == ServedPage(ordered, q)
    IN Envelope([k \in 1..Len(items) |->
                    [video |-> serialize_video(store, items[k]),
                     matching_segments |-> <<>>,
                     total_segments |-> 0,
                     relevance_score |-> 0]],
                Len(ordered), q, <<>>, "none", <<>>)

\* _get_video_results, given the order the database returned the videos in
get_video_results(store, ordered, q) ==
    LET items == ServedPage(ordered, q)
    IN Envelope([k \in 1..Len(items) |->
                    [video |-> serialize_video(store, items[k]),
                     matching_segments |-> <<>>,
                     total_segments |-> Len(store.segments[items[k].video_id]),
                     relevance_score |-> 0]],
                Len(ordered), q, <<>>, "none", <<>>)

\* one entry of results on the query path
QueryResult(store, v, q) ==
    LET rows == store.segments[v.video_id]
        hits == ByStart(rows, MatchingSegments(store, v.video_id, q))
        mock == Len(hits) = 0 /\ Len(Strip(q.query)) > 0
    IN [video |-> serialize_video(store, v),
        matching_segments |->
            [k \in 1..Len(hits) |-> serialize_segment(rows[hits[k]], hits[k])]
            \o (IF mock THEN create_mock_segments(store, v, q.query) ELSE <<>>),
        total_segments |-> IF mock THEN 1 ELSE Len(hits),
        relevance_score |-> calculate_relevance_score(v, q.query)]

\* the videos the query path of search_transcripts pages over
MatchingVideos(store, user, q) ==
    LET videos_qs == FilteredVideos(store, user, q)
        video_ids == {v \in videos_qs : MatchingSegments(store, v.video_id, q) # {}}
    IN IF video_ids = {} /\ Len(Strip(q.query)) > 0
       THEN search_in_raw_assets(store, videos_qs, q.query)
       ELSE video_ids

\* search_transcripts: every response the call can give, one for each order in
\* which the database may return the sorted videos
search_transcripts(store, user, q) ==
    IF Len(Strip(q.query)) = 0
    THEN LET found == FilteredVideos(store, user, q)
         IN {get_video_results(store, ordered, q) :
                ordered \in Orderings(found, {e \in found \X found :
                                                 SortsBefore(q.sort_by, <<>>, e[1], e[2])})}
    ELSE LET found == MatchingVideos(store, user, q)
         IN {LET items == ServedPage(ordered, q)
             IN Envelope([k \in 1..Len(items) |-> QueryResult(store, items[k], q)],
                         Len(ordered), q, q.query, q.search_type,
                         [video_filters |-> q.video_filters, time_range |-> q.time_range,
                          language |-> q.language, is_generated |-> q.is_generated]) :
                ordered \in Orderings(found, {e \in found \X found :
                                                 SortsBefore(q.sort_by, q.query, e[1], e[2])})}

\* the Chapter rows of a set of videos, each named by its video and position
ChaptersOf(store, videos) ==
    UNION {{<<v.video_id, k>> : k \in 1..Len(store.chapters[v.video_id])} : v \in videos}

\* search_chapters: every response the call can give (Chapter's Meta.ordering
\* is start_time_s; chapters that start together come in any order)
search_chapters(store, user, q) ==
    LET base == base_queryset(store, user)
        row(c) == store.chapters[c[1]][c[2]]
        c0 == ChaptersOf(store, base)
        c1 == IF TruthyS(q.video_id) THEN {c \in c0 : c[1] = q.video_id[1]} ELSE c0
        c2 == IF Len(Strip(q.query)) > 0
              THEN {c \in c1 : \/ IContains(row(c).text, q.query)
                               \/ TruthyT(row(c).summary)
                                  /\ IContains(row(c).summary[1], q.query)}
              ELSE c1
        title(pk) == (CHOOSE v \in base : v.video_id = pk).title
    IN {LET items == ServedPage(ordered, q)
            pages == num_pages(Len(ordered), q.page_size)
            number == page_number(q.page, pages)
        IN [results |->
                [k \in 1..Len(items) |->
                    LET c == row(items[k])
                    IN [id |-> items[k][2], video_id |-> items[k][1],
                        video_title |-> title(items[k][1]),
                        start_time_s |-> c.start_time_s,
                        end_time_s |-> IF TruthyN(c.end_time_s) THEN c.end_time_s ELSE None,
                        text |-> c.text, summary |-> c.summary,
                        duration_s |-> IF TruthyN(c.end_time_s)
                                       THEN Some(c.end_time_s[1] - c.start_time_s)
                                       ELSE None]],
            total_count |-> Len(ordered), page |-> q.page, page_size |-> q.page_size,
            total_pages |-> pages, has_next |-> number < pages,
            has_previous |-> number > 1, query |-> q.query] :
          ordered \in Orderings(c2, {e \in c2 \X c2 :
                                         row(e[1]).start_time_s < row(e[2]).start_time_s})}

\* get_video_transcript: the response, None when the video is not in the
\* engine's base queryset or has no asset of the format (stored_at is left out)
get_video_transcript(store, user, q) ==
    LET found == {v \in base_queryset(store, user) : v.video_id = q.video_id}
        v == CHOOSE x \in found : TRUE
        assets == store.assets[q.video_id]
        ks == {k \in 1..Len(assets) : assets[k].kind = q.format_type}
        raw_asset == assets[CHOOSE k \in ks : \A j \in ks : k <= j]
    IN IF found = {} \/ ks = {} THEN {None}
       ELSE {Some([video_id |-> v.video_id, title |-> v.title, format |-> q.format_type,
                   content |-> IF TruthyT(raw_asset.content_text)
                               THEN raw_asset.content_text ELSE raw_asset.content_json,
                   is_json |-> Len(raw_asset.content_json) > 0,
                   language_code |-> v.language_code, is_generated |-> v.is_generated])}

\* the subsets of S with n elements, or S itself when it has fewer: a slice
\* [:n] of rows that come in no fixed order
SliceOf(S, n) == {T \in SUBSET S : Cardinality(T) = Min2(n, Cardinality(S))}

\* get_search_suggestions: every response the call can give.  A response is
\* the titles and the words of the returned list, for the videos whose titles
\* the slice took; the order within the list is left out.
get_search_suggestions(store, user, q) ==
    LET base == base_queryset(store, user)
        half == q.limit \div 2
        titled == {v \in base : IContains(v.title, q.partial_query)}
        segs == UNION {{<<v.video_id, k>> : k \in 1..Len(store.segments[v.video_id])} :
                          v \in base}
        text(c) == store.segments[c[1]][c[2]].text
        hits == {c \in segs : IContains(text(c), q.partial_query)}
        words(cs) == {w \in UNION {Range(Split(Lower(text(c)))) : c \in cs} :
                         /\ Contains(w, Lower(q.partial_query))
                         /\ Len(w) > Len(q.partial_query)}
    IN IF Len(Strip(q.partial_query)) < 2 THEN {[titles |-> {}, words |-> {}]}
       ELSE {[titles |-> {v.title : v \in vs}, words |-> ws] :
                <<vs, ws>> \in UNION {{<<vs2, ws2>> :
                                          ws2 \in SliceOf(words(cs), q.limit - Cardinality(vs2))} :
                                      vs2 \in SliceOf(titled, half), cs \in SliceOf(hits, half)}}

-----------------------------------------------------------------------------
(* The searches the model makes *)

\* the largest page number and page size asked for
MaxPage == 3
MaxPageSize == 2

\* the query texts tried: none, blank, one in a segment, one only in an asset
Queries == {<<>>, <<" ">>, <<"b">>, <<"a", "b">>}

NoFilters ==
    [video_filters |-> <<>>, time_range |-> None, language |-> None, is_generated |-> None]

\* the filter settings tried: none, and one of each kind
FilterSets ==
    {NoFilters,
     [NoFilters EXCEPT !.video_filters = [title |-> <<"B">>, duration_min |-> 1]],
     [NoFilters EXCEPT !.video_filters = [uploader |-> <<"a">>, date_from |-> 1, date_to |-> 1,
                                          duration_max |-> 9]],
     [NoFilters EXCEPT !.time_range = Some(<<10, 50>>)],
     [NoFilters EXCEPT !.language = Some("en"), !.is_generated = Some(TRUE)]}

TranscriptQuery(query, search_type, f, sort_by, page, page_size) ==
    [query |-> query, search_type |-> search_type, video_filters |-> f.video_filters,
     time_range |-> f.time_range, language |-> f.language, is_generated |-> f.is_generated,
     sort_by |-> sort_by, page |-> page, page_size |-> page_size]

\* every page and page size with every query and sort order, and every filter
\* setting with every query and search type
TranscriptQueries ==
    {TranscriptQuery(query, "exact", NoFilters, sort_by, page, page_size) :
        query \in Queries, sort_by \in {"relevance", "duration", "title"},
        page \in 0..MaxPage, page_size \in 1..MaxPageSize}
    \cup {TranscriptQuery(query, search_type, f, "date", 1, MaxPageSize) :
             query \in Queries, search_type \in {"full_text", "exact", "fuzzy"},
             f \in FilterSets}

ChapterQueries ==
    {[query |-> query, video_id |-> video_id, page |-> page, page_size |-> page_size] :
        query \in {<<>>, <<"b">>}, video_id \in {None, Some("v1")},
        page \in 0..MaxPage, page_size \in 1..MaxPageSize}

TranscriptGets ==
    {[video_id |-> v, format_type |-> k] : v \in VideoIds, k \in {"clean_text", "structured_json"}}

SuggestionQueries ==
    {[partial_query |-> p, limit |-> n] :
        p \in {<<"b">>, <<"a", "b">>, <<"b", " ">>}, n \in {2, 10}}

\* the saves whose results are searched
SearchCalls ==
    {Args(u, v, p) : u \in Users, v \in VideoIds, p \in {PayloadA, PayloadB, PayloadText}}

\* a response is in flight from the call to its delivery, one at a time
Asked(op, user, q, out) == [op |-> op, user |-> user, req |-> q, out |-> out]

\* save_transcript_to_db, run from call to return, with no record kept of it
StoreTranscript(a) ==
    /\ resp = NoResponse
    /\ db' = save_transcript_to_db(db, a, "none", Now(db)).store
    /\ UNCHANGED <<tx, last, resp>>

SearchTranscripts(user, q) ==
    /\ resp = NoResponse
    /\ \E out \in search_transcripts(db, Some(user), q) :
           resp' = Asked("search_transcripts", user, q, out)
    /\ UNCHANGED <<db, tx, last>>

SearchChapters(user, q) ==
    /\ resp = NoResponse
    /\ \E out \in search_chapters(db, Some(user), q) :
           resp' = Asked("search_chapters", user, q, out)
    /\ UNCHANGED <<db, tx, last>>

GetVideoTranscript(user, q) ==
    /\ resp = NoResponse
    /\ \E out \in get_video_transcript(db, Some(user), q) :
           resp' = Asked("get_video_transcript", user, q, out)
    /\ UNCHANGED <<db, tx, last>>

GetSearchSuggestions(user, q) ==
    /\ resp = NoResponse
    /\ \E out \in get_search_suggestions(db, Some(user), q) :
           resp' = Asked("get_search_suggestions", user, q, out)
    /\ UNCHANGED <<db, tx, last>>

\* the response is delivered to the caller
Respond ==
    /\ resp # NoResponse
    /\ resp' = NoResponse
    /\ UNCHANGED <<db, tx, last>>

NextSearch ==
    \/ \E a \in SearchCalls : StoreTranscript(a)
    \/ \E u \in Users, q \in TranscriptQueries : SearchTranscripts(u, q)
    \/ \E u \in Users, q \in ChapterQueries : SearchChapters(u, q)
    \/ \E u \in Users, q \in TranscriptGets : GetVideoTranscript(u, q)
    \/ \E u \in Users, q \in SuggestionQueries : GetSearchSuggestions(u, q)
    \/ Respond

SpecSearch == Init /\ [][NextSearch]_vars

-----------------------------------------------------------------------------
(* search_transcripts next to a save: one database statement at a time *)

\* search_transcripts runs outside any transaction: the statements that pick
\* and page the videos read the store as committed when they run, and the
\* statements that fetch each video's segments and assets read it as committed
\* later. save_transcript_to_db commits all it wrote at once.

\* the saves that run next to a search: both transcripts for both videos of
\* one user
SnapshotCalls == {Args("u1", v, p) : v \in VideoIds, p \in {PayloadA, PayloadB}}

\* the searches: a query that segments of both transcripts hold and one that
\* segments of one of them hold, all videos on one page
SnapshotQueries ==
    {TranscriptQuery(query, "exact", NoFilters, "date", 1, MaxPageSize) :
        query \in {<<"b">>, <<"a", "b">>}}

\* the statements up to page_obj: the videos on the page served
SelectVideos(q) ==
    /\ resp = NoResponse
    /\ LET found == MatchingVideos(db, Some("u1"), q)
       IN \E ordered \in Orderings(found, {e \in found \X found :
                                             SortsBefore(q.sort_by, q.query, e[1], e[2])}) :
              resp' = [op |-> "selected", user |-> "u1", req |-> q, before |-> db,
                       count |-> Len(ordered), items |-> ServedPage(ordered, q),
                       commits |-> 0]
    /\ UNCHANGED <<db, tx, last>>

\* a save_transcript_to_db commits while the search is between its statements
CommitDuringSearch(a) ==
    /\ resp.op = "selected"
    /\ resp.commits = 0
    /\ db' = save_transcript_to_db(db, a, "none", Now(db)).store
    /\ resp' = [resp EXCEPT !.commits = 1]
    /\ UNCHANGED <<tx, last>>

\* the loop over page_obj: each video's segments and mock segments, read now
BuildResults ==
    /\ resp.op = "selected"
    /\ resp' = [op |-> "searched", user |-> resp.user, req |-> resp.req,
                before |-> resp.before, after |-> db, commits |-> resp.commits,
                out |-> Envelope([k \in 1..Len(resp.items) |->
                                     QueryResult(db, resp.items[k], resp.req)],
                                 resp.count, resp.req, resp.req.query,
                                 resp.req.search_type,
                                 [video_filters |-> resp.req.video_filters,
                                  time_range |-> resp.req.time_range,
                                  language |-> resp.req.language,
                                  is_generated |-> resp.req.is_generated])]
    /\ UNCHANGED <<db, tx, last>>

Deliver ==
    /\ resp.op = "searched"
    /\ resp' = NoResponse
    /\ UNCHANGED <<db, tx, last>>

NextSnapshot ==
    \/ \E a \in SnapshotCalls : StoreTranscript(a)
    \/ \E q \in SnapshotQueries : SelectVideos(q)
    \/ \E a \in SnapshotCalls : CommitDuringSearch(a)
    \/ BuildResults
    \/ Deliver

SpecSnapshot == Init /\ [][NextSnapshot]_vars

-----------------------------------------------------------------------------
(* transcript_processor.py *)

\* \w of the regular expressions: letters and digits
IsWord(c) ==
    c \in {"a", "b", "d", "e", "i", "o", "u", "m", "x", "A", "B", "V",
           "0", "1", "2", "3", "4", "5", "6", "7", "8", "9"}

\* a word character stands at position i of the text
WordAt(t, i) == i >= 1 /\ i <= Len(t) /\ IsWord(t[i])

\* \b just before position i
AtBoundary(t, i) == WordAt(t, i - 1) # WordAt(t, i)

\* the filler word matches at position i: \b word \b, ignoring case
FillerAt(t, i, word) ==
    /\ Len(word) > 0
    /\ i + Len(word) - 1 <= Len(t)
    /\ Lower(SubSeq(t, i, i + Len(word) - 1)) = Lower(word)
    /\ AtBoundary(t, i)
    /\ AtBoundary(t, i + Len(word))

\* re.sub(r'\b(?:w1|w2|...)\b', '', text, flags=re.IGNORECASE) from position i
\* on: the leftmost match, of the first alternative that matches, is dropped
RECURSIVE RemoveFillersFrom(_, _, _)
RemoveFillersFrom(t, i, filler_words) ==
    IF i > Len(t) THEN <<>>
    ELSE LET ks == {k \in 1..Len(filler_words) : FillerAt(t, i, filler_words[k])}
             k == CHOOSE x \in ks : \A y \in ks : x <= y
         IN IF ks = {} THEN <<t[i]>> \o RemoveFillersFrom(t, i + 1, filler_words)
            ELSE RemoveFillersFrom(t, i + Len(filler_words[k]), filler_words)

\* re.sub(r'\s+', ' ', text) from position i on
RECURSIVE CollapseFrom(_, _)
CollapseFrom(t, i) ==
    IF i > Len(t) THEN <<>>
    ELSE IF IsSpace(t[i])
         THEN (IF i > 1 /\ IsSpace(t[i - 1]) THEN <<>> ELSE <<" ">>) \o CollapseFrom(t, i + 1)
         ELSE <<t[i]>> \o CollapseFrom(t, i + 1)

\* the last position of the run of word characters (of spaces) that starts at i;
\* i - 1 when there is none
RECURSIVE WordEnd(_, _)
WordEnd(t, i) == IF WordAt(t, i) THEN WordEnd(t, i + 1) ELSE i - 1

RECURSIVE SpaceEnd(_, _)
SpaceEnd(t, i) == IF i <= Len(t) /\ IsSpace(t[i]) THEN SpaceEnd(t, i + 1) ELSE i - 1

\* r'\b(\w+)\s+\1\b', ignoring case, at position i: the position of the last
\* character matched, 0 when there is no match.  The group is the whole word at
\* i, then come all the spaces, then the same word again, ending at a boundary.
RepeatAt(t, i) ==
    LET e == WordEnd(t, i)
        s == SpaceEnd(t, e + 1)
        n == e - i + 1
    IN IF /\ AtBoundary(t, i) /\ WordAt(t, i)
          /\ s > e
          /\ s + n <= Len(t)
          /\ Lower(SubSeq(t, s + 1, s + n)) = Lower(SubSeq(t, i, e))
          /\ AtBoundary(t, s + n + 1)
       THEN s + n ELSE 0

\* re.sub(r'\b(\w+)\s+\1\b', r'\1', text, flags=re.IGNORECASE) from position i on
RECURSIVE DropRepeatsFrom(_, _)
DropRepeatsFrom(t, i) ==
    IF i > Len(t) THEN <<>>
    ELSE IF RepeatAt(t, i) > 0
         THEN SubSeq(t, i, WordEnd(t, i)) \o DropRepeatsFrom(t, RepeatAt(t, i) + 1)
         ELSE <<t[i]>> \o DropRepeatsFrom(t, i + 1)

\* r'\b(\w+)\s*-\s*\1\b' at position i: the position of the last character
\* matched, 0 when there is no match
HyphenAt(t, i) ==
    LET e == WordEnd(t, i)
        h == SpaceEnd(t, e + 1) + 1
        s == SpaceEnd(t, h + 1)
        n == e - i + 1
    IN IF /\ AtBoundary(t, i) /\ WordAt(t, i)
          /\ h <= Len(t) /\ t[h] = "-"
          /\ s + n <= Len(t)
          /\ SubSeq(t, s + 1, s + n) = SubSeq(t, i, e)
          /\ AtBoundary(t, s + n + 1)
       THEN s + n ELSE 0

\* re.sub(r'\b(\w+)\s*-\s*\1\b', r'\1', text) from position i on
RECURSIVE DropHyphensFrom(_, _)
DropHyphensFrom(t, i) ==
    IF i > Len(t) THEN <<>>
    ELSE IF HyphenAt(t, i) > 0
         THEN SubSeq(t, i, WordEnd(t, i)) \o DropHyphensFrom(t, HyphenAt(t, i) + 1)
         ELSE <<t[i]>> \o DropHyphensFrom(t, i + 1)

\* clean_text; cfg is the text_cleaning configuration
clean_text(text, cfg) ==
    LET unfilled == IF cfg.remove_filler_words /\ Len(cfg.filler_words) > 0
                    THEN RemoveFillersFrom(text, 1, cfg.filler_words) ELSE text
        spaced == IF cfg.normalize_whitespace THEN Strip(CollapseFrom(unfilled, 1))
                  ELSE unfilled
        fixed == IF cfg.fix_transcription_artifacts
                 THEN DropHyphensFrom(DropRepeatsFrom(spaced, 1), 1) ELSE spaced
    IN IF ~cfg.enabled THEN text ELSE Strip(fixed)

\* the stripped texts of the entries that have any, in order
RECURSIVE TextParts(_)
TextParts(entries) ==
    IF Len(entries) = 0 THEN <<>>
    ELSE (IF Len(Strip(entries[1].text)) > 0 THEN <<Strip(entries[1].text)>> ELSE <<>>)
         \o TextParts(Tail(entries))

\* generate_clean_transcript: the texts joined by one space, then cleaned
generate_clean_transcript(transcript_entries, cfg) ==
    clean_text(Join(TextParts(transcript_entries)), cfg)

\* float(entry.get('start', 0)): [err, value]; a str of digits converts, any
\* other str raises ValueError, None raises TypeError
FloatOf(x) ==
    CASE x.kind = "num" -> [err |-> "", value |-> x.n]
      [] x.kind = "missing" -> [err |-> "", value |-> 0]
      [] x.kind = "null" -> [err |-> "TypeError", value |-> 0]
      [] OTHER ->
           IF Len(Strip(x.t)) > 0 /\ \A i \in 1..Len(Strip(x.t)) : DigitValue(Strip(x.t)[i]) >= 0
           THEN [err |-> "", value |-> DigitsValue(Strip(x.t), 0)]
           ELSE [err |-> "ValueError", value |-> 0]

\* the words of a chapter summary
SummaryWords == 8

\* the summary of a chapter text: its first words, with an ellipsis when the
\* limit was reached
Summary(chapter_text, include_summaries) ==
    IF include_summaries /\ Len(chapter_text) > 0
    THEN LET all == Split(chapter_text)
             words == SubSeq(all, 1, Min2(SummaryWords, Len(all)))
         IN Join(words) \o (IF Len(words) = SummaryWords THEN <<".", ".", ".">> ELSE <<>>)
    ELSE <<>>

\* a chapter that always starts at the beginning of the transcript
ChapterFromOrigin(current_chapter_start, start_time, current_chapter_text, include_summaries) ==
    LET chapter_text == Strip(Join(current_chapter_text))
    IN [start_time |-> 0, end_time |-> start_time,
        duration |-> start_time, text |-> chapter_text,
        summary |-> Summary(chapter_text, include_summaries),
        word_count |-> Len(Split(chapter_text))]

\* the chapter detect_chapters appends
ChapterOf(current_chapter_start, start_time, current_chapter_text, include_summaries) ==
    LET chapter_text == Strip(Join(current_chapter_text))
    IN [start_time |-> current_chapter_start, end_time |-> start_time,
        duration |-> start_time - current_chapter_start, text |-> chapter_text,
        summary |-> Summary(chapter_text, include_summaries),
        word_count |-> Len(Split(chapter_text))]

\* a break wherever the chapter is long enough, whatever the gap
break_on_length(gap, elapsed, cfg) == elapsed >= cfg.min_length

\* gap >= min_gap and start_time - current_chapter_start >= min_length
break_on_gap(gap, elapsed, cfg) == gap >= cfg.min_gap /\ elapsed >= cfg.min_length

\* the loop of detect_chapters from entry i on: [err, chapters, open], where
\* open is the text gathered for the chapter not yet closed
RECURSIVE DetectFrom(_, _, _, _, _, _)
DetectFrom(entries, i, cfg, chapters, current_chapter_start, current_chapter_text) ==
    IF i > Len(entries)
    THEN [err |-> "", chapters |-> chapters, open |-> current_chapter_text]
    ELSE LET here == FloatOf(entries[i].start)
             start_time == here.value
             text == current_chapter_text \o <<entries[i].text>>
             next == IF i < Len(entries) THEN FloatOf(entries[i + 1].start)
                     ELSE [err |-> "", value |-> 0]
             long == start_time - current_chapter_start >= cfg.min_length
             is_chapter_break ==
                 \/ i = Len(entries)
                 \/ /\ next.err = ""
                    /\ break_on_gap(next.value - start_time,
                                    start_time - current_chapter_start, cfg)
         IN IF here.err = "ValueError"
            THEN DetectFrom(entries, i + 1, cfg, chapters, current_chapter_start,
                            current_chapter_text)
            ELSE IF here.err = "TypeError" \/ next.err = "TypeError"
            THEN [err |-> "TypeError", chapters |-> <<>>, open |-> <<>>]
            ELSE IF is_chapter_break /\ long
            THEN DetectFrom(entries, i + 1, cfg,
                            Append(chapters, ChapterOf(current_chapter_start, start_time, text,
                                                       cfg.include_summaries)),
                            start_time, <<>>)
            ELSE DetectFrom(entries, i + 1, cfg, chapters, current_chapter_start, text)

\* detect_chapters: [err, chapters, open]
detect_chapters(entries, cfg) ==
    IF ~cfg.enabled THEN [err |-> "", chapters |-> <<>>, open |-> <<>>]
    ELSE DetectFrom(entries, 1, cfg, <<>>, 0, <<>>)

-----------------------------------------------------------------------------
(* metadata_collector.py *)

\* str.count: the occurrences of needle in hay that do not overlap, from
\* position i on: the leftmost one, and those after its end
RECURSIVE CountFrom(_, _, _)
CountFrom(hay, needle, i) ==
    LET hits == {p \in i..(Len(hay) - Len(needle) + 1) :
                    SubSeq(hay, p, p + Len(needle) - 1) = needle}
        first == CHOOSE p \in hits : \A q \in hits : p <= q
    IN IF hits = {} THEN 0 ELSE 1 + CountFrom(hay, needle, first + Len(needle))

\* len(text.split()): the places where a word starts
WordCount(t) ==
    Cardinality({i \in 1..Len(t) : ~IsSpace(t[i]) /\ (i = 1 \/ IsSpace(t[i - 1]))})

RECURSIVE SumSeq(_)
SumSeq(ns) == IF Len(ns) = 0 THEN 0 ELSE ns[1] + SumSeq(Tail(ns))

SeqMax(ns) == CHOOSE m \in Range(ns) : \A n \in Range(ns) : n <= m
SeqMin(ns) == CHOOSE m \in Range(ns) : \A n \in Range(ns) : m <= n

\* a quotient of two numbers that the model keeps exact
Ratio(num, den) == [num |-> num, den |-> den]
Zero == Ratio(0, 1)

\* round(n / d) to the nearest whole number; a value exactly halfway goes to
\* the even neighbour
RoundDiv(n, d) ==
    LET q == n \div d
        r == n % d
    IN IF 2 * r < d THEN q
       ELSE IF 2 * r > d THEN q + 1
       ELSE IF q % 2 = 0 THEN q ELSE q + 1

\* re.split(r'[.!?]+', text), stripped, without the empty pieces
RECURSIVE SentencesFrom(_, _, _)
SentencesFrom(t, i, cur) ==
    IF i > Len(t) THEN (IF Len(Strip(cur)) > 0 THEN <<Strip(cur)>> ELSE <<>>)
    ELSE IF t[i] \in {".", "!", "?"}
         THEN (IF Len(Strip(cur)) > 0 THEN <<Strip(cur)>> ELSE <<>>)
              \o SentencesFrom(t, i + 1, <<>>)
         ELSE SentencesFrom(t, i + 1, Append(cur, t[i]))

\* the text of the entries joined by spaces
full_text(transcript_entries) ==
    Join([k \in 1..Len(transcript_entries) |-> transcript_entries[k].text])

\* words over distinct words
inverse_diversity(words) ==
    IF Len(words) > 0 THEN Ratio(Len(words), Cardinality(Range(words))) ELSE Zero

\* distinct words over words, 0 for no words
lexical_diversity(words) ==
    IF Len(words) > 0 THEN Ratio(Cardinality(Range(words)), Len(words)) ELSE Zero

\* _calculate_content_metrics: [err, ...]; the rounded rates are in tenths
calculate_content_metrics(text, transcript_entries) ==
    LET words == Split(text)
        sentences == SentencesFrom(text, 1, <<>>)
        last_start == IF Len(transcript_entries) > 0
                      THEN FloatOf(transcript_entries[Len(transcript_entries)].start)
                      ELSE [err |-> "", value |-> 0]
        total_duration == IF last_start.err = "" THEN last_start.value ELSE 0
    IN [err |-> IF last_start.err = "TypeError" THEN "TypeError" ELSE "",
        word_count |-> Len(words),
        sentence_count |-> Len(sentences),
        character_count |-> Len(text),
        character_count_no_spaces |-> Len(SelectSeq(text, LAMBDA c : c # " ")),
        average_words_per_sentence |->
            IF Len(sentences) > 0 THEN Ratio(Len(words), Len(sentences)) ELSE Zero,
        average_sentence_length |->
            IF Len(sentences) > 0
            THEN Ratio(SumSeq([k \in 1..Len(sentences) |-> Len(sentences[k])]), Len(sentences))
            ELSE Zero,
        speaking_rate_wpm |->
            IF total_duration > 0 THEN RoundDiv(10 * 60 * Len(words), total_duration) ELSE 0,
        estimated_reading_time_minutes |-> RoundDiv(10 * Len(words), 200),
        lexical_diversity |-> lexical_diversity(words),
        total_duration_seconds |-> total_duration,
        transcript_entries_count |-> Len(transcript_entries)]

\* the artifacts and the indicators of an incomplete transcript, lowercased
Artifacts ==
    <<<<"[", "m", "u", "s", "i", "c", "]">>,
      <<"[", "a", "p", "p", "l", "a", "u", "s", "e", "]">>,
      <<"[", "l", "a", "u", "g", "h", "t", "e", "r", "]">>,
      <<"[", "n", "o", "i", "s", "e", "]">>,
      <<"[", "i", "n", "a", "u", "d", "i", "b", "l", "e", "]">>,
      <<"u", "m">>,
      <<"u", "h">>,
      <<"e", "r">>,
      <<"a", "h">>,
      <<".", ".", ".">>,
      <<"-", "-">>>>

IncompleteIndicators ==
    <<<<"[">>,
      <<"]">>,
      <<".", ".", ".">>,
      <<"-", "-">>,
      <<"i", "n", "a", "u", "d", "i", "b", "l", "e">>,
      <<"u", "n", "c", "l", "e", "a", "r">>>>

\* the highest quality score
FullScore == 100

\* what an artifact and an incomplete indicator per word take off the score
ArtifactWeight == 100
IncompleteWeight == 50

\* the lowest scores of the categories above "Very Poor"
Excellent == 90
VeryGood == 80
Good == 70
Fair == 60
Poor == 50

\* the category of the score as it is reported, rounded to tenths
categorize_rounded(num, den) ==
    LET tenths == RoundDiv(10 * num, den)
    IN IF tenths >= 10 * Excellent THEN "Excellent"
       ELSE IF tenths >= 10 * VeryGood THEN "Very Good"
       ELSE IF tenths >= 10 * Good THEN "Good"
       ELSE IF tenths >= 10 * Fair THEN "Fair"
       ELSE IF tenths >= 10 * Poor THEN "Poor"
       ELSE "Very Poor"

\* _categorize_quality of the score num / den
categorize_quality(num, den) ==
    IF num >= Excellent * den THEN "Excellent"
    ELSE IF num >= VeryGood * den THEN "Very Good"
    ELSE IF num >= Good * den THEN "Good"
    ELSE IF num >= Fair * den THEN "Fair"
    ELSE IF num >= Poor * den THEN "Poor"
    ELSE "Very Poor"

\* _assess_content_quality: [err, ...]; quality_score and average_entry_length
\* are in tenths, the ratios in thousandths, entry_consistency in hundredths
assess_content_quality(text, transcript_entries) ==
    LET lower == Lower(text)
        artifact_count ==
            SumSeq([k \in 1..Len(Artifacts) |-> CountFrom(lower, Artifacts[k], 1)])
        incomplete_count ==
            SumSeq([k \in 1..Len(IncompleteIndicators) |->
                       CountFrom(lower, IncompleteIndicators[k], 1)])
        words == WordCount(text)
        den == IF words > 0 THEN words ELSE 1
        num == IF words > 0
               THEN Max2(0, FullScore * words - ArtifactWeight * artifact_count
                                              - IncompleteWeight * incomplete_count)
               ELSE FullScore
        entry_lengths == [k \in 1..Len(transcript_entries) |-> Len(transcript_entries[k].text)]
    IN IF Len(entry_lengths) > 0 /\ SeqMax(entry_lengths) = 0
       THEN [err |-> "ZeroDivisionError"]
       ELSE [err |-> "",
             quality_score |-> RoundDiv(10 * num, den),
             artifact_count |-> artifact_count,
             artifact_ratio |-> IF words > 0 THEN RoundDiv(1000 * artifact_count, words) ELSE 0,
             incomplete_indicators |-> incomplete_count,
             incomplete_ratio |->
                 IF words > 0 THEN RoundDiv(1000 * incomplete_count, words) ELSE 0,
             average_entry_length |->
                 IF Len(entry_lengths) > 0
                 THEN RoundDiv(10 * SumSeq(entry_lengths), Len(entry_lengths)) ELSE 0,
             entry_consistency |->
                 IF Len(entry_lengths) > 0
                 THEN RoundDiv(100 * SeqMin(entry_lengths), SeqMax(entry_lengths)) ELSE 0,
             quality_category |-> categorize_quality(num, den)]

\* analyze_transcript_content: [err, empty, content_metrics, quality_assessment,
\* content_analysis].  No entries give the empty dict.  The keyword, topic,
\* language and content-type analyses are total on a str (each of their
\* divisions is guarded), so content_analysis keeps only which of them ran.
analyze_transcript_content(transcript_entries, cfg) ==
    LET text == full_text(transcript_entries)
        metrics == calculate_content_metrics(text, transcript_entries)
        quality == IF cfg.content_quality_score
                   THEN assess_content_quality(text, transcript_entries)
                   ELSE [err |-> ""]
        raised == IF metrics.err # "" THEN metrics.err ELSE quality.err
    IN IF Len(transcript_entries) = 0
       THEN [err |-> "", empty |-> TRUE, content_metrics |-> <<>>,
             quality_assessment |-> <<>>, content_analysis |-> {}]
       ELSE IF raised # ""
       THEN [err |-> raised, empty |-> FALSE, content_metrics |-> <<>>,
             quality_assessment |-> <<>>, content_analysis |-> {}]
       ELSE [err |-> "", empty |-> FALSE, content_metrics |-> <<metrics>>,
             quality_assessment |-> IF cfg.content_quality_score THEN <<quality>> ELSE <<>>,
             content_analysis |-> cfg.content_analysis]

-----------------------------------------------------------------------------
(* The calls the model makes of the processing pipeline *)

\* a call of a function of the pipeline that has not run yet, and its answer
Pending(fn, req) == [op |-> "call", fn |-> fn, req |-> req]
Answered(op, req, out) == [op |-> op, req |-> req, out |-> out]

\* the longest list of transcript entries
MaxEntries == 3

\* what an entry may carry under 'start': times in and out of order, a str of
\* digits, a str that is no number, None, nothing
StartValues ==
    {Num(0), Num(10), Num(30), Num(60), Str(<<"3", "0">>), Str(<<"x">>), Null, Missing}

EntryTexts == {<<"a">>, <<"b", " ">>}

\* the entries: every text at every time, and one entry for each other value
Entries ==
    {[start |-> x, text |-> t] : x \in {y \in StartValues : y.kind = "num"}, t \in EntryTexts}
    \cup {[start |-> x, text |-> <<"a">>] : x \in {y \in StartValues : y.kind # "num"}}

EntryLists == UNION {[1..n -> Entries] : n \in 0..MaxEntries}

\* chapter_detection settings: the defaults, no thresholds, a long gap with a
\* short minimum length, and detection switched off
ChapterConfigs ==
    {[enabled |-> TRUE, min_gap |-> 3, min_length |-> 30, include_summaries |-> TRUE],
     [enabled |-> TRUE, min_gap |-> 0, min_length |-> 0, include_summaries |-> FALSE],
     [enabled |-> TRUE, min_gap |-> 30, min_length |-> 10, include_summaries |-> TRUE],
     [enabled |-> FALSE, min_gap |-> 3, min_length |-> 30, include_summaries |-> TRUE]}

\* the longest text cleaned
MaxText == 5

TextChars == {"a", "b", " ", "-"}

Texts == UNION {[1..n -> TextChars] : n \in 0..MaxText}

\* filler_words lists: none, one word, a word and a phrase
FillerLists == {<<>>, <<<<"b">>>>, <<<<"b">>, <<"a", " ", "a">>>>}

\* text_cleaning settings: every choice of the three steps with fillers to
\* remove, the steps without a filler list, and cleaning switched off
CleaningConfigs ==
    {[enabled |-> TRUE, remove_filler_words |-> r, normalize_whitespace |-> n,
      fix_transcription_artifacts |-> f, filler_words |-> w] :
        r \in BOOLEAN, n \in BOOLEAN, f \in BOOLEAN, w \in FillerLists \ {<<>>}}
    \cup {[enabled |-> e, remove_filler_words |-> TRUE, normalize_whitespace |-> TRUE,
           fix_transcription_artifacts |-> TRUE, filler_words |-> <<>>] : e \in BOOLEAN}

CleanCalls ==
    {Pending("clean_text", [text |-> text, cfg |-> cfg]) :
        text \in Texts, cfg \in CleaningConfigs}

\* the snippet texts of the transcripts cleaned
SnippetTexts ==
    {<<>>, <<" ">>, <<"a">>, <<"b">>, <<"a", " ", "b">>, <<"b", " ", "a">>, <<" ", "B", " ">>}

Snippets == {[text |-> t] : t \in SnippetTexts}

SnippetLists == UNION {[1..n -> Snippets] : n \in 0..MaxEntries}

TranscriptCalls ==
    {Pending("generate_clean_transcript", [entries |-> entries, cfg |-> cfg]) :
        entries \in SnippetLists, cfg \in CleaningConfigs}

\* one segment with every choice of its time keys, in tenths of a second
TimedSegments ==
    {[k \in ({"text"} \cup keys) |->
        IF k = "text" THEN Some(<<"a">>) ELSE Some(f[k])] :
        keys \in SUBSET {"start", "duration", "dur", "end"},
        f \in [{"start", "duration", "dur", "end"} -> {0, 4, 12}]}

SegmentCalls ==
    {Pending("save_segments_to_db", [segments |-> <<s>>]) : s \in TimedSegments}

\* n characters that are in no query
Padding(n) == [i \in 1..n |-> "x"]

\* the lengths of text put before and after a match: none, just inside, at
\* and just beyond the context kept, and far beyond it
PaddingLengths == {0, 1, MockContext - 1, MockContext, MockContext + 1, MockContext + 50}

\* clean-text assets: a match, or none, between two paddings, with or
\* without a second match at the end
MockContents ==
    {Padding(n) \o w \o Padding(m) \o t :
        n \in PaddingLengths, m \in PaddingLengths,
        w \in {<<>>, <<"A", "b">>}, t \in {<<>>, <<"a", "b">>}}

MockCalls ==
    {Pending("create_mock_segments", [content |-> content, query |-> query]) :
        content \in MockContents, query \in {<<"a", "b">>, <<"B">>}}

\* a store whose only row is the clean-text asset of video v1
StoreOfAsset(content) ==
    [EmptyStore EXCEPT !.assets["v1"] = <<AssetRow("clean_text", Some(content), None)>>]

\* n times the word, separated by spaces
Words(word, n) ==
    [i \in 1..(n * (Len(word) + 1) - 1) |->
        IF i % (Len(word) + 1) = 0 THEN " " ELSE word[i % (Len(word) + 1)]]

\* the texts of the entries analyzed: none, an artifact word, a plain word, an
\* artifact token, two sentences
AnalyzedTexts == {<<>>, <<"u", "m">>, <<"x">>, <<"[", "M", "u", "s", "i", "c", "]">>, <<"x", ".", " ", "x">>}

\* the entries analyzed: every text at two times, and one entry for each other
\* value under 'start'
AnalyzedEntries ==
    {[start |-> x, text |-> t] : x \in {Num(0), Num(60)}, t \in AnalyzedTexts}
    \cup {[start |-> Str(<<"x">>), text |-> <<"x">>], [start |-> Null, text |-> <<"x">>],
          [start |-> Null, text |-> <<>>], [start |-> Missing, text |-> <<>>]}

\* a transcript of 204 words whose score, 89.95..., is just under a category edge
EdgeTranscript ==
    <<[start |-> Num(0), text |-> Words(<<"u", "m">>, 20)],
      [start |-> Num(60), text |-> Words(<<"x">>, 183)],
      [start |-> Num(120), text |-> <<"u", "n", "c", "l", "e", "a", "r">>]>>

AnalyzedLists == UNION {[1..n -> AnalyzedEntries] : n \in 0..MaxEntries}

\* metadata_collection settings: everything on, no content analysis, no
\* quality assessment
AnalysisRuns == {"keywords", "topics", "language_analysis", "content_type"}

AnalysisConfigs ==
    {[content_quality_score |-> TRUE, content_analysis |-> AnalysisRuns],
     [content_quality_score |-> TRUE, content_analysis |-> {}],
     [content_quality_score |-> FALSE, content_analysis |-> AnalysisRuns]}

AnalyzeCalls ==
    {Pending("analyze_transcript_content", [entries |-> entries, cfg |-> cfg]) :
        entries \in AnalyzedLists, cfg \in AnalysisConfigs}

MetricsCalls ==
    {Pending("calculate_content_metrics", [entries |-> entries]) : entries \in AnalyzedLists}

QualityCalls ==
    {Pending("assess_content_quality", [entries |-> entries]) :
        entries \in AnalyzedLists \cup {EdgeTranscript}}

\* two transcripts with thresholds of 3 s and 10 s: one whose long gap comes
\* before the chapter is long enough, one with a gap after every entry
GapTooEarly == [k \in 1..5 |-> [start |-> Num(<<0, 2, 4, 40, 42>>[k]), text |-> <<"a">>]]
GapsAllAlong == [k \in 1..4 |-> [start |-> Num(<<0, 15, 30, 70>>[k]), text |-> <<"a">>]]
ShortChapters == [enabled |-> TRUE, min_gap |-> 3, min_length |-> 10, include_summaries |-> TRUE]

ChapterCalls ==
    {Pending("detect_chapters", [entries |-> entries, cfg |-> cfg]) :
        entries \in EntryLists, cfg \in ChapterConfigs}
    \cup {Pending("detect_chapters", [entries |-> entries, cfg |-> ShortChapters]) :
             entries \in {GapTooEarly, GapsAllAlong}}

\* the upload dates parsed: eight digits and YYYY-MM-DD texts, some of them
\* dates of the calendar, other texts, times in seconds since the epoch, None
\* and a list
DateYears == {<<"0", "0", "0", "0">>, <<"2", "0", "2", "4">>, <<"2", "0", "2", "5">>}
DateMonths == {<<"0", "1">>, <<"0", "2">>, <<"1", "3">>}
DateDays == {<<"0", "0">>, <<"2", "9">>, <<"3", "0">>, <<"3", "1">>}
CompactTexts == {y \o m \o d : y \in DateYears, m \in DateMonths, d \in DateDays}
IsoTexts ==
    {y \o <<"-">> \o m \o <<"-">> \o d : y \in DateYears, m \in DateMonths, d \in DateDays}
Timestamps == {0, 86399, 86400, 1738195200}

UploadDates ==
    {Str(t) : t \in CompactTexts \cup IsoTexts \cup {<<>>, <<"a", "b">>}}
    \cup {Num(n) : n \in Timestamps} \cup {Null, NonEmptyList}

ParseCalls == {Pending("parse_upload_date", [upload_date |-> x]) : x \in UploadDates}

\* a function is called once, with any of the arguments
InitProcess ==
    /\ db = EmptyStore
    /\ tx = [w \in Workers |-> Idle]
    /\ last = NoCall
    /\ \/ resp \in ChapterCalls
       \/ resp \in CleanCalls
       \/ resp \in AnalyzeCalls
       \/ resp \in MetricsCalls
       \/ resp \in QualityCalls
       \/ resp \in ParseCalls
       \/ resp \in TranscriptCalls
       \/ resp \in SegmentCalls
       \/ resp \in MockCalls

DetectChapters ==
    /\ resp.op = "call"
    /\ resp.fn = "detect_chapters"
    /\ resp' = Answered("detect_chapters", resp.req,
                        detect_chapters(resp.req.entries, resp.req.cfg))
    /\ UNCHANGED <<db, tx, last>>

CleanText ==
    /\ resp.op = "call"
    /\ resp.fn = "clean_text"
    /\ resp' = Answered("clean_text", resp.req, clean_text(resp.req.text, resp.req.cfg))
    /\ UNCHANGED <<db, tx, last>>

GenerateCleanTranscript ==
    /\ resp.op = "call"
    /\ resp.fn = "generate_clean_transcript"
    /\ resp' = Answered("generate_clean_transcript", resp.req,
                        generate_clean_transcript(resp.req.entries, resp.req.cfg))
    /\ UNCHANGED <<db, tx, last>>

\* save_segments_to_db for a video that has no segments yet
SaveSegments ==
    /\ resp.op = "call"
    /\ resp.fn = "save_segments_to_db"
    /\ resp' = Answered("save_segments_to_db", resp.req,
                        save_segments_to_db(EmptyPart, resp.req.segments,
                                            "youtube", None).segments)
    /\ UNCHANGED <<db, tx, last>>

\* _create_mock_segments_from_raw_assets for a video with one clean-text asset
CreateMockSegments ==
    /\ resp.op = "call"
    /\ resp.fn = "create_mock_segments"
    /\ resp' = Answered("create_mock_segments", resp.req,
                        create_mock_segments(StoreOfAsset(resp.req.content),
                                             [video_id |-> "v1", is_generated |-> None],
                                             resp.req.query))
    /\ UNCHANGED <<db, tx, last>>

AnalyzeTranscriptContent ==
    /\ resp.op = "call"
    /\ resp.fn = "analyze_transcript_content"
    /\ resp' = Answered("analyze_transcript_content", resp.req,
                        analyze_transcript_content(resp.req.entries, resp.req.cfg))
    /\ UNCHANGED <<db, tx, last>>

\* _calculate_content_metrics on the text of the entries, as
\* analyze_transcript_content calls it
CalculateContentMetrics ==
    /\ resp.op = "call"
    /\ resp.fn = "calculate_content_metrics"
    /\ resp' = Answered("calculate_content_metrics", resp.req,
                        calculate_content_metrics(full_text(resp.req.entries),
                                                  resp.req.entries))
    /\ UNCHANGED <<db, tx, last>>

\* _assess_content_quality on the text of the entries, as
\* analyze_transcript_content calls it
AssessContentQuality ==
    /\ resp.op = "call"
    /\ resp.fn = "assess_content_quality"
    /\ resp' = Answered("assess_content_quality", resp.req,
                        assess_content_quality(full_text(resp.req.entries), resp.req.entries))
    /\ UNCHANGED <<db, tx, last>>

ParseUploadDate ==
    /\ resp.op = "call"
    /\ resp.fn = "parse_upload_date"
    /\ resp' = Answered("parse_upload_date", resp.req, parse_upload_date(resp.req.upload_date))
    /\ UNCHANGED <<db, tx, last>>

NextProcess ==
    \/ ParseUploadDate
    \/ DetectChapters
    \/ CleanText
    \/ GenerateCleanTranscript
    \/ SaveSegments
    \/ CreateMockSegments
    \/ AnalyzeTranscriptContent
    \/ CalculateContentMetrics
    \/ AssessContentQuality

SpecProcess == InitProcess /\ [][NextProcess]_vars

-----------------------------------------------------------------------------
(* Properties of the search engine *)

\* the store with the rows of every other owner's videos taken out
OwnedBy(store, user) ==
    LET mine == {v.video_id : v \in {x \in store.videos : x.user = user}}
    IN [videos   |-> {v \in store.videos : v.user = user},
        chapters |-> [pk \in VideoIds |-> IF pk \in mine THEN store.chapters[pk] ELSE <<>>],
        segments |-> [pk \in VideoIds |-> IF pk \in mine THEN store.segments[pk] ELSE <<>>],
        assets   |-> [pk \in VideoIds |-> IF pk \in mine THEN store.assets[pk] ELSE <<>>]]

\* the responses an operation of the engine of a user can give on a store
Responses(op, store, user, q) ==
    CASE op = "search_transcripts" -> search_transcripts(store, Some(user), q)
      [] op = "search_chapters" -> search_chapters(store, Some(user), q)
      [] op = "get_video_transcript" -> get_video_transcript(store, Some(user), q)
      [] OTHER -> get_search_suggestions(store, Some(user), q)

\* the video ids a response names
VideosNamed(r) ==
    CASE r.op = "search_transcripts" ->
           {r.out.results[k].video.video_id : k \in 1..Len(r.out.results)}
      [] r.op = "search_chapters" ->
           {r.out.results[k].video_id : k \in 1..Len(r.out.results)}
      [] r.op = "get_video_transcript" ->
           IF Len(r.out) > 0 THEN {r.out[1].video_id} ELSE {}
      [] OTHER -> {}

\* C7: whatever an engine constructed for a user returns (search_transcripts on
\* its three paths, search_chapters, get_video_transcript,
\* get_search_suggestions) names only that user's videos, and is a response
\* the same call gives on the store without any other owner's rows.
C7_ScopedToOwner ==
    resp # NoResponse =>
        /\ \A pk \in VideosNamed(resp) :
               \E v \in db.videos : v.video_id = pk /\ v.user = resp.user
        /\ resp.out \in Responses(resp.op, OwnedBy(db, resp.user), resp.user, resp.req)

\* C7 happens: a search by one user went down the raw-asset path and returned
\* a synthesized segment while another user's video had an asset with the query.
C7_Witness ==
    /\ resp.op = "search_transcripts"
    /\ \E k \in 1..Len(resp.out.results) :
           /\ Len(resp.out.results[k].matching_segments) = 1
           /\ resp.out.results[k].matching_segments[1].source = "raw_asset"
    /\ \E v \in db.videos :
           /\ v.user # resp.user
           /\ search_in_raw_assets(db, {v}, resp.req.query) # {}

\* the number of results on pages 1..n of a search, which is the same for
\* every order the database may return the videos in
RECURSIVE ResultsOnPages(_, _, _, _)
ResultsOnPages(store, user, q, n) ==
    IF n = 0 THEN 0
    ELSE Len((CHOOSE r \in search_transcripts(store, Some(user), [q EXCEPT !.page = n]) :
                  TRUE).results)
         + ResultsOnPages(store, user, q, n - 1)

\* C8 as stated: for the store and the arguments of a search, the results on
\* pages 1..total_pages add up to total_count, no page has more than page_size
\* results, and no video is on two pages.
C8_PagesPartition ==
    resp.op = "search_transcripts" =>
        LET q == resp.req
            pages == 1..resp.out.total_pages
            page(n) == search_transcripts(db, Some(resp.user), [q EXCEPT !.page = n])
            videos(r) == {r.results[k].video.video_id : k \in 1..Len(r.results)}
        IN /\ ResultsOnPages(db, resp.user, q, resp.out.total_pages) = resp.out.total_count
           /\ \A n \in pages : \A r \in page(n) : Len(r.results) <= q.page_size
           /\ \A m, n \in pages : \A r1 \in page(m), r2 \in page(n) :
                  m # n => videos(r1) \cap videos(r2) = {}

\* C9 as stated: in every envelope has_next is true exactly when page <
\* total_pages and has_previous exactly when page > 1, whatever page was asked for.
C9_FlagsMatchPage ==
    resp.op \in {"search_transcripts", "search_chapters"} =>
        /\ resp.out.has_next <=> resp.out.page < resp.out.total_pages
        /\ resp.out.has_previous <=> resp.out.page > 1

\* a video the fallback is for: it passes the filters of the search, has no
\* TranscriptSegment row, and has a clean_text asset containing the query
FallbackVideos(store, user, q) ==
    {v \in FilteredVideos(store, Some(user), q) :
        /\ Len(store.segments[v.video_id]) = 0
        /\ \E k \in AssetsOfKind(store, v.video_id, "clean_text") :
               /\ TruthyT(store.assets[v.video_id][k].content_text)
               /\ IContains(store.assets[v.video_id][k].content_text[1], q.query)}

\* the entries of a response's results that are for the video
EntriesFor(out, pk) == {k \in 1..Len(out.results) : out.results[k].video.video_id = pk}

\* the entry carries exactly one segment, a synthesized one
OneMockSegment(entry) ==
    /\ Len(entry.matching_segments) = 1
    /\ entry.matching_segments[1].source = "raw_asset"

\* the video is returned on some page of the search, with one synthesized segment
ReturnedWithMock(store, user, q, pk) ==
    \E n \in 1..num_pages(Cardinality(MatchingVideos(store, Some(user), q)), q.page_size) :
        \E r \in search_transcripts(store, Some(user), [q EXCEPT !.page = n]) :
            \E k \in EntriesFor(r, pk) : OneMockSegment(r.results[k])

\* C10 as stated: a search with a non-empty query returns (on one of its
\* pages) every video the fallback is for, with exactly one synthesized segment.
C10_FallbackAlways ==
    (resp.op = "search_transcripts" /\ Len(Strip(resp.req.query)) > 0) =>
        \A v \in FallbackVideos(db, resp.user, resp.req) :
            ReturnedWithMock(db, resp.user, resp.req, v.video_id)

\* C10 amended: when the query matches no segment of any of the owner's
\* filtered videos, every video the fallback is for is one of the matches
\* counted by total_count, carries exactly one synthesized segment wherever it
\* is returned, is returned on one of the pages of the search, and is on the
\* page served when all matches fit on it.
C10_FallbackWhenNoSegmentMatches ==
    (/\ resp.op = "search_transcripts"
     /\ Len(Strip(resp.req.query)) > 0
     /\ \A x \in FilteredVideos(db, Some(resp.user), resp.req) :
            MatchingSegments(db, x.video_id, resp.req) = {})
    => \A v \in FallbackVideos(db, resp.user, resp.req) :
           /\ resp.out.total_count >= 1
           /\ v \in MatchingVideos(db, Some(resp.user), resp.req)
           /\ \A k \in EntriesFor(resp.out, v.video_id) : OneMockSegment(resp.out.results[k])
           /\ resp.out.total_count <= resp.req.page_size => EntriesFor(resp.out, v.video_id) # {}
           /\ ReturnedWithMock(db, resp.user, resp.req, v.video_id)

\* C10 happens: a search returned a video that has no segment rows, with one
\* synthesized segment, next to another match of the fallback.
C10_Witness ==
    /\ resp.op = "search_transcripts"
    /\ resp.out.total_count = 2
    /\ \E v \in FallbackVideos(db, resp.user, resp.req) :
           \E k \in EntriesFor(resp.out, v.video_id) : OneMockSegment(resp.out.results[k])

\* the video passes the video-level filters of the request
PassesFilters(v, q) ==
    LET f == q.video_filters
    IN /\ "title" \in DOMAIN f => IContains(v.title, f.title)
       /\ "uploader" \in DOMAIN f => Len(v.uploader) > 0 /\ IContains(v.uploader[1], f.uploader)
       /\ "date_from" \in DOMAIN f => v.processed_at >= f.date_from
       /\ "date_to" \in DOMAIN f => v.processed_at <= f.date_to
       /\ "duration_min" \in DOMAIN f => Len(v.duration_s) > 0 /\ v.duration_s[1] >= f.duration_min
       /\ "duration_max" \in DOMAIN f => Len(v.duration_s) > 0 /\ v.duration_s[1] <= f.duration_max
       /\ Len(q.language) > 0 => v.language_code = q.language
       /\ Len(q.is_generated) > 0 => v.is_generated = q.is_generated

\* C11: a search with an empty or blank query counts exactly the user's videos
\* that pass the video-level filters, returns only such videos (all of them
\* when they fit on the page), in the order of sort_by, each with no matching
\* segments, its stored segment count and relevance 0, and reports no search.
C11_EmptyQueryListsVideos ==
    (resp.op = "search_transcripts" /\ Len(Strip(resp.req.query)) = 0) =>
        LET q == resp.req
            out == resp.out
            passing == {v \in db.videos : v.user = resp.user /\ PassesFilters(v, q)}
            named == {out.results[k].video.video_id : k \in 1..Len(out.results)}
        IN /\ out.total_count = Cardinality(passing)
           /\ named \subseteq {v.video_id : v \in passing}
           /\ Cardinality(named) = Len(out.results)
           /\ out.total_count <= q.page_size => named = {v.video_id : v \in passing}
           /\ out.search_type = "none"
           /\ \A k \in 1..Len(out.results) :
                  /\ out.results[k].matching_segments = <<>>
                  /\ out.results[k].total_segments = Len(db.segments[out.results[k].video.video_id])
                  /\ out.results[k].relevance_score = 0
           /\ \A j, k \in 1..Len(out.results) :
                  j < k => ~SortsBefore(q.sort_by, <<>>, out.results[k].video, out.results[j].video)

\* C11 happens: a blank query with a filter returned a video that has stored
\* segments while another video of the user did not pass the filter.
C11_Witness ==
    /\ resp.op = "search_transcripts"
    /\ resp.req.query = <<" ">>
    /\ \E k \in 1..Len(resp.out.results) : resp.out.results[k].total_segments > 0
    /\ \E v \in db.videos : v.user = resp.user /\ ~PassesFilters(v, resp.req)

-----------------------------------------------------------------------------
(* Properties of the processing pipeline *)

\* C12: the chapters detect_chapters returns, for entries in any order and
\* thresholds that are not negative, are in the order of their start times,
\* each starts no earlier than the one before it ends, and each is at least
\* min_chapter_length_seconds long.
C12_ChaptersMonotone ==
    (resp.op = "detect_chapters" /\ resp.out.err = "") =>
        LET chapters == resp.out.chapters
        IN /\ \A k \in 1..Len(chapters) :
                  chapters[k].end_time - chapters[k].start_time >= resp.req.cfg.min_length
           /\ \A k \in 2..Len(chapters) :
                  /\ chapters[k].start_time >= chapters[k - 1].start_time
                  /\ chapters[k].start_time >= chapters[k - 1].end_time

\* C12 happens: two chapters came out of entries that were not in time order.
C12_Witness ==
    /\ resp.op = "detect_chapters"
    /\ resp.out.err = ""
    /\ Len(resp.out.chapters) >= 2
    /\ \E i \in 1..(Len(resp.req.entries) - 1) :
           /\ resp.req.entries[i].start.kind = "num"
           /\ resp.req.entries[i + 1].start.kind = "num"
           /\ resp.req.entries[i + 1].start.n < resp.req.entries[i].start.n

\* the entries detect_chapters does not skip: those whose start is a number
ProcessedTexts(entries) ==
    LET kept == SelectSeq(entries, LAMBDA e : FloatOf(e.start).err = "")
    IN [k \in 1..Len(kept) |-> kept[k].text]

\* the texts of the chapters, in order
ChapterTexts(chapters) == [k \in 1..Len(chapters) |-> chapters[k].text]

\* C20 as stated: for a non-empty list of entries the last entry closes a
\* chapter, and the words of the entries that were processed are the words of
\* the chapters returned, each once and in order: nothing is dropped.
C20_NoTextLost ==
    (/\ resp.op = "detect_chapters"
     /\ resp.out.err = ""
     /\ resp.req.cfg.enabled
     /\ Len(ProcessedTexts(resp.req.entries)) > 0
     /\ FloatOf(resp.req.entries[Len(resp.req.entries)].start).err = "")
    => LET chapters == resp.out.chapters
           final == resp.req.entries[Len(resp.req.entries)]
       IN /\ Len(chapters) > 0
          /\ chapters[Len(chapters)].end_time = FloatOf(final.start).value
          /\ Split(Join(ChapterTexts(chapters))) = Split(Join(ProcessedTexts(resp.req.entries)))

\* C13 as stated: cleaning a cleaned text changes nothing, for every text and
\* every setting of the three cleaning steps and the filler words.
C13_CleanIdempotent ==
    resp.op = "clean_text" => clean_text(resp.out, resp.req.cfg) = resp.out

\* C14 as stated, for entries whose start times are numbers:
\* analyze_transcript_content raises for no list of entries, not for the
\* empty list, not when every entry has empty or missing text.
C14_AnalyzerNeverRaises ==
    (/\ resp.op = "analyze_transcript_content"
     /\ \A k \in 1..Len(resp.req.entries) : resp.req.entries[k].start.kind = "num")
    => resp.out.err = ""

\* the band of a score given in tenths
Band(tenths) ==
    IF tenths >= 900 THEN "Excellent"
    ELSE IF tenths >= 800 THEN "Very Good"
    ELSE IF tenths >= 700 THEN "Good"
    ELSE IF tenths >= 600 THEN "Fair"
    ELSE IF tenths >= 500 THEN "Poor"
    ELSE "Very Poor"

\* an assessment came back, from _assess_content_quality called on its own or
\* by analyze_transcript_content
Assessed ==
    \/ resp.op = "assess_content_quality" /\ resp.out.err = ""
    \/ /\ resp.op = "analyze_transcript_content"
       /\ resp.out.err = ""
       /\ Len(resp.out.quality_assessment) > 0

Assessment ==
    IF resp.op = "assess_content_quality" THEN resp.out ELSE resp.out.quality_assessment[1]

\* the transcript is nothing but "[Music]" tokens
OnlyMusic(entries) ==
    /\ Len(entries) > 0
    /\ \A k \in 1..Len(entries) : entries[k].text = <<"[", "M", "u", "s", "i", "c", "]">>

\* C15 as stated: the reported quality_score is in [0, 100], quality_category
\* is the band of that score, and a transcript of "[Music]" tokens only gets
\* score 0 and "Very Poor".
C15_CategoryOfReportedScore ==
    Assessed =>
        LET q == Assessment
        IN /\ q.quality_score >= 0 /\ q.quality_score <= 1000
           /\ q.quality_category = Band(q.quality_score)
           /\ OnlyMusic(resp.req.entries) =>
                  q.quality_score = 0 /\ q.quality_category = "Very Poor"

\* C15 amended: the reported quality_score is in [0, 100] and is the score
\* max(0, 100 - 100 a/w - 50 i/w) rounded to one decimal (100 for no words);
\* quality_category is the band of the score before rounding; a transcript of
\* "[Music]" tokens only gets score 0 and "Very Poor".
C15_CategoryOfExactScore ==
    Assessed =>
        LET q == Assessment
            w == WordCount(full_text(resp.req.entries))
            lost == 100 * q.artifact_count + 50 * q.incomplete_indicators
            \* the exact score times w
            exact == IF w = 0 THEN 100 ELSE IF lost >= 100 * w THEN 0 ELSE 100 * w - lost
            d == IF w = 0 THEN 1 ELSE w
        IN /\ q.quality_score >= 0 /\ q.quality_score <= 1000
           /\ 2 * (10 * exact - q.quality_score * d) <= d
           /\ 2 * (q.quality_score * d - 10 * exact) <= d
           /\ q.quality_category =
                  (IF exact >= 90 * d THEN "Excellent"
                   ELSE IF exact >= 80 * d THEN "Very Good"
                   ELSE IF exact >= 70 * d THEN "Good"
                   ELSE IF exact >= 60 * d THEN "Fair"
                   ELSE IF exact >= 50 * d THEN "Poor"
                   ELSE "Very Poor")
           /\ OnlyMusic(resp.req.entries) =>
                  q.quality_score = 0 /\ q.quality_category = "Very Poor"

\* C15 happens: a transcript of two "[Music]" tokens was assessed.
C15_Witness ==
    /\ Assessed
    /\ OnlyMusic(resp.req.entries)
    /\ Len(resp.req.entries) = 2
    /\ Assessment.artifact_count = 2

\* C16: for entries whose last start time float() accepts or rejects with a
\* ValueError, the content metrics of a text with words have a lexical
\* diversity above 0 and at most 1, equal to distinct words over words; those
\* of the empty text have lexical diversity 0 and word, sentence and
\* character counts 0, and computing them does not fail.
C16_LexicalDiversityBounds ==
    (/\ resp.op = "calculate_content_metrics"
     /\ \A k \in 1..Len(resp.req.entries) : resp.req.entries[k].start.kind # "null")
    =>
        LET m == resp.out
            text == full_text(resp.req.entries)
            ld == m.lexical_diversity
        IN /\ m.word_count > 0 =>
                  /\ ld.num > 0 /\ ld.num <= ld.den
                  /\ ld.den = m.word_count
                  /\ ld.num = Cardinality(Range(Split(text)))
           /\ m.err = ""
           /\ Len(text) = 0 =>
                  /\ ld.num = 0
                  /\ m.word_count = 0 /\ m.sentence_count = 0
                  /\ m.character_count = 0 /\ m.character_count_no_spaces = 0

\* C16 happens: metrics of a text with a repeated word, its diversity below 1.
C16_Witness ==
    /\ resp.op = "calculate_content_metrics"
    /\ resp.out.err = ""
    /\ resp.out.word_count = 3
    /\ resp.out.lexical_diversity = Ratio(2, 3)

\* C17 as stated: parse_upload_date raises for no input; it returns a date
\* for eight digits that are a date of the calendar, for a YYYY-MM-DD text
\* that is one and for a number other than 0, and None for everything else,
\* eight digits that are no date included.
C17_ParseNeverFails ==
    resp.op = "parse_upload_date" =>
        LET x == resp.req.upload_date
            compact == x.kind = "str" /\ Len(x.t) = 8 /\ IsDigits(x.t)
            dated == \/ compact /\ strptime_compact(x.t).err = ""
                     \/ x.kind = "str" /\ ~compact /\ fromisoformat(x.t).err = ""
                     \/ x.kind = "num" /\ x.n # 0
        IN /\ resp.out.err = ""
           /\ dated <=> resp.out.date # None

-----------------------------------------------------------------------------
(* Properties of the stored segments *)

\* the segments of an argument that save_segments_to_db stores: the dicts
\* whose text is not blank
StoredFrom(segments) ==
    SelectSeq(segments, LAMBDA s : ~IsStrSegment(s) /\ Len(Strip(TextOf(D(s, "text")))) > 0)

RawText(s) == TextOf(D(s, "text"))

\* C18: every stored segment carries the digest of its text, which is trimmed;
\* after a save that wrote segments, the rows of the video are the segments
\* of the argument with text, each with the digest of its trimmed raw text:
\* two of them have the same hash exactly when their trimmed texts are
\* equal, so texts that differ inside, in whitespace only, hash differently.
C18_HashOfTrimmedText ==
    /\ \A pk \in VideoIds : \A k \in 1..Len(db.segments[pk]) :
           LET row == db.segments[pk][k]
           IN row.text = Strip(row.text) /\ row.text_hash = sha256(row.text)
    /\ (last.outcome = "ok" /\ Len(last.args.segments) > 0) =>
           LET rows == db.segments[last.args.video_id]
               given == StoredFrom(last.args.segments)
           IN /\ Len(rows) = Len(given)
              /\ \A k \in 1..Len(given) :
                     rows[k].text_hash = sha256(Strip(RawText(given[k])))
              /\ \A k, l \in 1..Len(given) :
                     (rows[k].text_hash = rows[l].text_hash)
                     <=> (Strip(RawText(given[k])) = Strip(RawText(given[l])))

\* C18 happens: a save stored three segments whose raw texts all differ, two
\* of them equal once trimmed, the third equal to them once whitespace is
\* collapsed; the first two share a hash and the third has another.
C18_Witness ==
    /\ last.outcome = "ok"
    /\ last.args.segments = SegmentsSpaced
    /\ LET rows == db.segments[last.args.video_id]
       IN /\ Len(rows) = 3
          /\ RawText(SegmentsSpaced[1]) # RawText(SegmentsSpaced[2])
          /\ rows[1].text_hash = rows[2].text_hash
          /\ Join(Split(rows[3].text)) = Join(Split(rows[1].text))
          /\ rows[3].text_hash # rows[1].text_hash

\* the dicts of the argument whose trimmed text is not empty
DictsWithText(segments) ==
    SelectSeq(segments, LAMBDA s : "text" \in DOMAIN s /\ Len(Strip(s.text[1])) > 0)

\* C24: every stored segment has a non-empty text that is trimmed, and after
\* a save with a non-empty segment list the rows of the video are, one for
\* one and in order, the dict segments of the argument whose trimmed text is
\* not empty, each with that trimmed text and the start time it came with.
C24_StoredSegmentsHaveText ==
    /\ \A pk \in VideoIds : \A k \in 1..Len(db.segments[pk]) :
           LET row == db.segments[pk][k]
           IN Len(row.text) > 0 /\ ~IsSpace(row.text[1]) /\ ~IsSpace(row.text[Len(row.text)])
    /\ (last.outcome = "ok" /\ Len(last.args.segments) > 0) =>
           LET rows == db.segments[last.args.video_id]
               given == DictsWithText(last.args.segments)
           IN /\ Len(rows) = Len(given)
              /\ \A k \in 1..Len(given) :
                     /\ rows[k].text = Strip(given[k].text[1])
                     /\ rows[k].start_time_s =
                            (IF "start" \in DOMAIN given[k] THEN given[k].start[1]
                             ELSE IF "start_time" \in DOMAIN given[k]
                                  THEN given[k].start_time[1] ELSE 0)

\* C24 happens: a save was given four segments, one blank and one a plain
\* string, and stored the other two
C24_Witness ==
    /\ last.outcome = "ok"
    /\ last.args.segments = SegmentsA
    /\ Len(SegmentsA) = 4
    /\ Len(db.segments[last.args.video_id]) = 2
    /\ db.segments[last.args.video_id][1].text = <<"a", " ", "b">>
    /\ db.segments[last.args.video_id][2].text = <<"b">>

-----------------------------------------------------------------------------
(* Properties of the download requests *)

\* C19 as stated: a download request, to the API or from the form, that
\* reports success has left the Video of its user and video id in the store,
\* written by its save; a request whose save failed reports an error.
C19_SaveIsMandatory ==
    (resp.op \in {"download_transcript_api", "download_form"} /\ resp.success) =>
        /\ resp.err = ""
        /\ last.outcome = "ok" /\ last.args = resp.args
        /\ \E v \in db.videos :
               /\ v.user = resp.req.user
               /\ v.video_id = resp.args.video_id
               /\ v.title = VideoDefaults(resp.args.video_id, resp.args.video_info,
                                          resp.args.structured_data).row.title

-----------------------------------------------------------------------------
(* Properties of chapter detection *)

\* a start time that is missing, None or no number
BadStart(x) == x.kind \in {"missing", "null"} \/ (x.kind = "str" /\ FloatOf(x).err # "")

WithoutBadStarts(entries) == SelectSeq(entries, LAMBDA e : ~BadStart(e.start))

\* C21 as stated: detect_chapters does not raise because of an entry whose
\* start is missing, None or no number, and returns the chapters it returns
\* for the list without those entries, wherever in the list they are.
C21_BadStartSkipped ==
    resp.op = "detect_chapters" =>
        /\ resp.out.err = ""
        /\ resp.out.chapters
               = detect_chapters(WithoutBadStarts(resp.req.entries), resp.req.cfg).chapters

\* the start time of entry i, for entries whose start times are numbers
StartOf(entries, i) == entries[i].start.n

\* the start of the chapter that is open when entry i is reached, and whether
\* the chapter is closed after entry i, by the rule: the first chapter starts
\* at 0; a chapter is closed after an entry that is not the last one when
\* the next entry starts at least min_gap later and the entry starts at least
\* min_length after the chapter did, and the next chapter starts at that entry
RECURSIVE OpenedAt(_, _, _)
ClosedAfter(entries, cfg, i) ==
    /\ i < Len(entries)
    /\ StartOf(entries, i + 1) - StartOf(entries, i) >= cfg.min_gap
    /\ StartOf(entries, i) - OpenedAt(entries, cfg, i) >= cfg.min_length

OpenedAt(entries, cfg, i) ==
    IF i = 1 THEN 0
    ELSE IF ClosedAfter(entries, cfg, i - 1) THEN StartOf(entries, i - 1)
    ELSE OpenedAt(entries, cfg, i - 1)

NumericStarts(entries) == \A k \in 1..Len(entries) : entries[k].start.kind = "num"

\* the entries after which a chapter ends: those the rule closes one after, and
\* the last entry when it is at least min_length into its chapter
ChapterEnds(entries, cfg) ==
    {i \in 1..Len(entries) :
        \/ ClosedAfter(entries, cfg, i)
        \/ /\ i = Len(entries)
           /\ StartOf(entries, i) - OpenedAt(entries, cfg, i) >= cfg.min_length}

\* the k-th smallest member of a set of numbers
Nth(S, k) == CHOOSE i \in S : Cardinality({j \in S : j <= i}) = k

\* C22: with detection enabled and numeric start times, the chapters returned
\* are, in order, one for each entry the boundary rule closes a chapter
\* after (and one for the last entry if it is min_length into its chapter),
\* from the start of the chapter then open to the start of that entry; so
\* with gaps of 3 and lengths of 10, starts 0,2,4,40,42 get no chapter ending
\* at 4 and starts 0,15,30,70 get one ending at 30.
C22_BoundaryRule ==
    (/\ resp.op = "detect_chapters"
     /\ resp.req.cfg.enabled
     /\ NumericStarts(resp.req.entries))
    => LET entries == resp.req.entries
           cfg == resp.req.cfg
           ends == ChapterEnds(entries, cfg)
           chapters == resp.out.chapters
       IN /\ resp.out.err = ""
          /\ Len(chapters) = Cardinality(ends)
          /\ \A k \in 1..Len(chapters) :
                 /\ chapters[k].end_time = StartOf(entries, Nth(ends, k))
                 /\ chapters[k].start_time = OpenedAt(entries, cfg, Nth(ends, k))
          /\ entries = GapTooEarly /\ cfg = ShortChapters
                 => \A k \in 1..Len(chapters) : chapters[k].end_time # 4
          /\ entries = GapsAllAlong /\ cfg = ShortChapters
                 => \E k \in 1..Len(chapters) : chapters[k].end_time = 30

\* C22 happens: the transcript with starts 0,15,30,70 was split, a chapter
\* ending at 30 and another starting there.
C22_Witness ==
    /\ resp.op = "detect_chapters"
    /\ resp.req.entries = GapsAllAlong
    /\ resp.req.cfg = ShortChapters
    /\ \E k \in 1..(Len(resp.out.chapters) - 1) :
           /\ resp.out.chapters[k].end_time = 30
           /\ resp.out.chapters[k + 1].start_time = 30

-----------------------------------------------------------------------------
(* Properties of the clean transcript *)

\* the text holds the filler word as a whole word, ignoring case
HoldsFiller(t, word) == \E i \in 1..Len(t) : FillerAt(t, i, word)

\* more than one whitespace character in a row
HasSpaceRun(t) == \E i \in 1..(Len(t) - 1) : IsSpace(t[i]) /\ IsSpace(t[i + 1])

\* C23: with filler removal and whitespace normalization enabled, the clean
\* transcript of any snippet list holds no configured filler word or phrase as
\* a whole word (ignoring case), no run of more than one whitespace character,
\* and no leading or trailing whitespace.
C23_CleanTranscript ==
    (/\ resp.op = "generate_clean_transcript"
     /\ resp.req.cfg.enabled
     /\ resp.req.cfg.remove_filler_words
     /\ resp.req.cfg.normalize_whitespace)
    => /\ \A k \in 1..Len(resp.req.cfg.filler_words) :
              ~HoldsFiller(resp.out, resp.req.cfg.filler_words[k])
       /\ ~HasSpaceRun(resp.out)
       /\ Strip(resp.out) = resp.out

-----------------------------------------------------------------------------
(* Properties of the stored durations *)

\* the start time a segment came with
GivenStart(s) ==
    IF "start" \in DOMAIN s /\ s.start[1] # 0 THEN s.start[1]
    ELSE IF "start_time" \in DOMAIN s THEN s.start_time[1] ELSE 0

\* the duration a segment came with, 0 when it came with none
GivenDuration(s) ==
    IF "duration" \in DOMAIN s /\ s.duration[1] # 0 THEN s.duration[1]
    ELSE IF "dur" \in DOMAIN s THEN s.dur[1] ELSE 0

\* the saved rows of a save_segments_to_db answer, each with its segment
SavedPairs ==
    IF resp.op = "save_segments_to_db"
    THEN {<<resp.out[k], DictsWithText(resp.req.segments)[k]>> : k \in 1..Len(resp.out)}
    ELSE {}

\* C25 as stated: the stored duration is max(0.5, end - start) when the
\* segment carries an end time, 3.0 when it carries neither a duration nor an
\* end time, and the given duration otherwise; every stored duration is
\* strictly positive.
C25_DurationRuleAsStated ==
    \A pair \in SavedPairs :
        LET row == pair[1]
            s == pair[2]
        IN /\ row.duration_s > 0
           /\ row.duration_s =
                (IF "end" \in DOMAIN s THEN Max2(MinDuration, s.end[1] - GivenStart(s))
                 ELSE IF {"duration", "dur"} \cap DOMAIN s = {} THEN DefaultDuration
                 ELSE GivenDuration(s))

\* C25: the stored duration is the given duration when that is positive;
\* otherwise max(0.5, end - start) when the segment carries a non-zero end
\* time; otherwise 3.0. Every stored duration is strictly positive.
C25_DurationRule ==
    \A pair \in SavedPairs :
        LET row == pair[1]
            s == pair[2]
        IN /\ row.duration_s > 0
           /\ row.duration_s =
                (IF GivenDuration(s) > 0 THEN GivenDuration(s)
                 ELSE IF "end" \in DOMAIN s /\ s.end[1] # 0
                      THEN Max2(MinDuration, s.end[1] - GivenStart(s))
                 ELSE DefaultDuration)

\* C25 happens: a segment that came with a duration of 1.2 s and an end time
\* 0.4 s after its start was stored with the duration it came with
C25_Witness ==
    /\ resp.op = "save_segments_to_db"
    /\ Len(resp.out) = 1
    /\ resp.req.segments[1] =
         [text |-> Some(<<"a">>), start |-> Some(0), duration |-> Some(12), end |-> Some(4)]
    /\ resp.out[1].duration_s = 12

-----------------------------------------------------------------------------
(* Properties of the result order *)

\* the title of the k-th result contains the query, ignoring case
TitleMatches(k) == IContains(resp.out.results[k].video.title, resp.req.query)

\* C26 as stated: with a non-empty query and sort_by = relevance every result
\* whose title contains the query (ignoring case) comes before every result
\* whose title does not, ties broken by most recent processed_at; with
\* sort_by = date the most recent comes first, with duration the longest, with
\* title the alphabetically first.
C26_TitleMatchFirst ==
    (resp.op = "search_transcripts" /\ Len(Strip(resp.req.query)) > 0) =>
        \A i, j \in 1..Len(resp.out.results) : i < j =>
            LET a == resp.out.results[i].video
                b == resp.out.results[j].video
            IN CASE resp.req.sort_by = "relevance" ->
                      /\ ~(~TitleMatches(i) /\ TitleMatches(j))
                      /\ (TitleMatches(i) = TitleMatches(j)) => a.processed_at >= b.processed_at
                 [] resp.req.sort_by = "duration" ->
                      (Len(a.duration_s) > 0 /\ Len(b.duration_s) > 0)
                          => a.duration_s[1] >= b.duration_s[1]
                 [] resp.req.sort_by = "title" -> ~TextLess(b.title, a.title)
                 [] OTHER -> a.processed_at >= b.processed_at

-----------------------------------------------------------------------------
(* Properties of the mock segments *)

\* the query stands at 0-based position p of the content, ignoring case
MatchAt(content, query, p) ==
    /\ p >= 0
    /\ p + Len(query) <= Len(content)
    /\ Lower(SubSeq(content, p + 1, p + Len(query))) = Lower(query)

\* the first position of the query in the content, as a set: empty when the
\* content does not hold the query
FirstMatch(content, query) ==
    {p \in 0..Len(content) :
        MatchAt(content, query, p) /\ \A r \in 0..(p - 1) : ~MatchAt(content, query, r)}

\* the text of a mock segment: the content from max(0, p - 100) up to
\* min(len, p + len(query) + 100); it holds the match and is no longer than
\* len(query) + 200
MockText(seg, content, query, p) ==
    /\ seg.text = [i \in 1..(Min2(Len(content), p + Len(query) + 100) - Max2(0, p - 100)) |->
                      content[Max2(0, p - 100) + i]]
    /\ IContains(seg.text, query)
    /\ Len(seg.text) <= Len(query) + 200

\* C27 as stated: the mock segment's text is that slice, its start time and
\* its duration are zero, and its source marks it as not authoritative.
C27_MockTimesZero ==
    resp.op = "create_mock_segments" =>
        \A p \in FirstMatch(resp.req.content, resp.req.query) :
            /\ Len(resp.out) = 1
            /\ MockText(resp.out[1], resp.req.content, resp.req.query, p)
            /\ resp.out[1].start_time_s = 0
            /\ resp.out[1].duration_s = 0
            /\ resp.out[1].source = "raw_asset"

\* C27: the mock segment's text is the slice of the clean-text asset from
\* max(0, p - 100) to min(len, p + len(query) + 100), p the first occurrence
\* of the query ignoring case; it holds the match and is at most
\* len(query) + 200 characters long; its start time is the placeholder 0, its
\* duration the placeholder 3.0 s, its id 0 and its source 'raw_asset'. A
\* content without the query gives no mock segment.
C27_MockSegmentShape ==
    resp.op = "create_mock_segments" =>
        /\ \A p \in FirstMatch(resp.req.content, resp.req.query) :
              /\ Len(resp.out) = 1
              /\ MockText(resp.out[1], resp.req.content, resp.req.query, p)
              /\ resp.out[1].start_time_s = 0
              /\ resp.out[1].duration_s = 30
              /\ resp.out[1].id = 0
              /\ resp.out[1].source = "raw_asset"
        /\ FirstMatch(resp.req.content, resp.req.query) = {} => resp.out = <<>>

\* C27 happens: the match stands 150 characters into a content that goes on
\* for 150 more; the mock text is cut on both sides, to 100 + 2 + 100
C27_Witness ==
    /\ resp.op = "create_mock_segments"
    /\ resp.req.query = <<"a", "b">>
    /\ resp.req.content = Padding(150) \o <<"A", "b">> \o Padding(150)
    /\ Len(resp.out) = 1
    /\ Len(resp.out[1].text) = 202
    /\ resp.out[1].text[101] = "A"

-----------------------------------------------------------------------------
(* Properties of the time range *)

\* C28 as stated: for a non-empty query with time_range = (a, b), every entry
\* of matching_segments in every result starts within a..b and has a text
\* that matches the query, and total_segments is the number of entries of
\* matching_segments, also for the videos found through their raw assets.
C28_TimeRangeOnEveryPath ==
    (/\ resp.op = "search_transcripts"
     /\ Len(Strip(resp.req.query)) > 0
     /\ Len(resp.req.time_range) > 0) =>
        \A k \in 1..Len(resp.out.results) :
            LET r == resp.out.results[k]
            IN /\ \A i \in 1..Len(r.matching_segments) :
                      /\ r.matching_segments[i].start_time_s >= resp.req.time_range[1][1]
                      /\ r.matching_segments[i].start_time_s <= resp.req.time_range[1][2]
                      /\ TextMatches(resp.req.search_type, r.matching_segments[i].text,
                                     resp.req.query)
               /\ r.total_segments = Len(r.matching_segments)

-----------------------------------------------------------------------------
(* Properties of the background task *)

\* C29 as stated: the background task ends on its success path only when
\* download_transcript_files reported success, and on its failure path
\* whenever download_transcript_files reports failure; a failed download
\* never ends on the success path.
C29_FailureIsNotSuccess ==
    resp.op = "process_transcript_download" =>
        /\ resp.path = "success" => resp.download = "ok"
        /\ (resp.req.user_exists /\ resp.download = "failed") => resp.path = "failure"

-----------------------------------------------------------------------------
(* Properties of a search next to a save *)

\* what a result says of its video: the video, its matching segments and
\* their number
EntryOf(r) ==
    [video_id |-> r.video.video_id, matching_segments |-> r.matching_segments,
     total_segments |-> r.total_segments]

\* the entries the search returns on a committed store
EntriesOn(store, user, q) ==
    UNION {{EntryOf(out.results[k]) : k \in 1..Len(out.results)} :
              out \in search_transcripts(store, Some(user), q)}

\* C30 as stated: the entry a search returns for a video, while a save of a
\* video in its scope commits, is the entry the same search returns on the
\* store as committed before the save or as committed after it, never a
\* mixture of the two.
C30_SnapshotConsistent ==
    resp.op = "searched" =>
        \A k \in 1..Len(resp.out.results) :
            \/ EntryOf(resp.out.results[k]) \in EntriesOn(resp.before, resp.user, resp.req)
            \/ EntryOf(resp.out.results[k]) \in EntriesOn(resp.after, resp.user, resp.req)

====
